---------------------------- MODULE Spec2Model ----------------------------
(***************************************************************************)
(* Model of the Mini-C compiler pipeline of hr628/coplex-copiler:          *)
(*   Lexer -> Parser -> SemanticAnalyzer -> CodeGenerator -> VM            *)
(* The compiler stages are pure traversals and are modelled as recursive   *)
(* operators applied by one action per call; the VM dispatch loop is       *)
(* modelled one dispatched instruction per step.                           *)
(***************************************************************************)
EXTENDS Integers, Sequences, FiniteSets, TLC

(***************************************************************************)
(* JavaScript numbers as they occur in the VM.  The VM's stack and slots   *)
(* hold JS values: integers (kind "num"), negative zero, the infinities,   *)
(* NaN, and undefined (the result of Array.pop on an empty array).         *)
(***************************************************************************)
Num(n) == [k |-> "num", n |-> n]
NegZero == [k |-> "negzero", n |-> 0]
PosInf == [k |-> "inf", n |-> 0]
NegInf == [k |-> "ninf", n |-> 0]
NaN == [k |-> "nan", n |-> 0]
Undefined == [k |-> "undef", n |-> 0]

IsZero(v) == (v.k = "num" /\ v.n = 0) \/ v.k = "negzero"
IsNaNLike(v) == v.k \in {"nan", "undef"}
IsInfinite(v) == v.k \in {"inf", "ninf"}
IsInteger(v) == v.k \in {"num", "negzero"}

\* sign bit of a non-NaN value: TRUE when negative (including -0)
Negative(v) == v.k \in {"negzero", "ninf"} \/ (v.k = "num" /\ v.n < 0)

Abs(n) == IF n < 0 THEN -n ELSE n

SignedZero(neg) == IF neg THEN NegZero ELSE Num(0)
SignedInf(neg) == IF neg THEN NegInf ELSE PosInf

Negate(v) ==
  CASE v.k = "num" -> IF v.n = 0 THEN NegZero ELSE Num(-v.n)
    [] v.k = "negzero" -> Num(0)
    [] v.k = "inf" -> NegInf
    [] v.k = "ninf" -> PosInf
    [] OTHER -> NaN

\* a + b
JsAdd(a, b) ==
  IF IsNaNLike(a) \/ IsNaNLike(b) THEN NaN
  ELSE IF IsInfinite(a) /\ IsInfinite(b) THEN (IF a.k = b.k THEN a ELSE NaN)
  ELSE IF IsInfinite(a) THEN a
  ELSE IF IsInfinite(b) THEN b
  ELSE IF a.k = "negzero" /\ b.k = "negzero" THEN NegZero
  ELSE Num(a.n + b.n)

\* a - b
JsSub(a, b) == JsAdd(a, Negate(b))

\* a * b
JsMul(a, b) ==
  IF IsNaNLike(a) \/ IsNaNLike(b) THEN NaN
  ELSE IF (IsInfinite(a) /\ IsZero(b)) \/ (IsZero(a) /\ IsInfinite(b)) THEN NaN
  ELSE IF IsInfinite(a) \/ IsInfinite(b) THEN SignedInf(Negative(a) # Negative(b))
  ELSE IF IsZero(a) \/ IsZero(b) THEN SignedZero(Negative(a) # Negative(b))
  ELSE Num(a.n * b.n)

\* a / b truncated toward zero
JsTruncDiv(a, b) ==
  IF IsNaNLike(a) \/ IsNaNLike(b) THEN NaN
  ELSE IF IsInfinite(a) /\ IsInfinite(b) THEN NaN
  ELSE IF IsZero(a) /\ IsZero(b) THEN NaN
  ELSE IF IsInfinite(a) \/ IsZero(b) THEN SignedInf(Negative(a) # Negative(b))
  ELSE IF IsZero(a) THEN SignedZero(Negative(a) # Negative(b))
  ELSE IF IsInfinite(b) THEN SignedZero(Negative(a) # Negative(b))
  ELSE IF Negative(a) # Negative(b)
       THEN Num(-(Abs(a.n) \div Abs(b.n)))
       ELSE Num(Abs(a.n) \div Abs(b.n))

\* Math.floor(a / b)
JsFloorDiv(a, b) ==
  IF IsNaNLike(a) \/ IsNaNLike(b) THEN NaN
  ELSE IF IsInfinite(a) /\ IsInfinite(b) THEN NaN
  ELSE IF IsZero(a) /\ IsZero(b) THEN NaN
  ELSE IF IsInfinite(a) \/ IsZero(b) THEN SignedInf(Negative(a) # Negative(b))
  ELSE IF IsZero(a) THEN SignedZero(Negative(a) # Negative(b))
  ELSE IF IsInfinite(b) THEN SignedZero(Negative(a) # Negative(b))
  ELSE IF Negative(a) # Negative(b)
       THEN Num(-((Abs(a.n) + Abs(b.n) - 1) \div Abs(b.n)))
       ELSE Num(Abs(a.n) \div Abs(b.n))

\* a % b : remainder with the sign of the dividend
JsRem(a, b) ==
  IF IsNaNLike(a) \/ IsNaNLike(b) THEN NaN
  ELSE IF IsInfinite(a) \/ IsZero(b) THEN NaN
  ELSE IF IsInfinite(b) \/ IsZero(a) THEN a
  ELSE LET r == Abs(a.n) % Abs(b.n)
       IN IF r = 0 THEN SignedZero(Negative(a))
          ELSE IF Negative(a) THEN Num(-r) ELSE Num(r)

\* a === b
JsStrictEq(a, b) ==
  IF a.k = "undef" \/ b.k = "undef" THEN a.k = b.k
  ELSE IF IsNaNLike(a) \/ IsNaNLike(b) THEN FALSE
  ELSE IF IsZero(a) /\ IsZero(b) THEN TRUE
  ELSE a = b

\* a < b
JsLess(a, b) ==
  IF IsNaNLike(a) \/ IsNaNLike(b) THEN FALSE
  ELSE IF a.k = "inf" \/ b.k = "ninf" THEN FALSE
  ELSE IF a.k = "ninf" \/ b.k = "inf" THEN TRUE
  ELSE a.n < b.n

\* a <= b
JsLessEq(a, b) ==
  IF IsNaNLike(a) \/ IsNaNLike(b) THEN FALSE
  ELSE JsLess(a, b) \/ JsStrictEq(a, b)

Bool01(c) == IF c THEN Num(1) ELSE Num(0)

\* String(v)
JsString(v) ==
  CASE v.k = "num" -> ToString(v.n)
    [] v.k = "negzero" -> "0"
    [] v.k = "inf" -> "Infinity"
    [] v.k = "ninf" -> "-Infinity"
    [] v.k = "nan" -> "NaN"
    [] OTHER -> "undefined"

(***************************************************************************)
(* Tokens and AST nodes.  A lexeme is the sequence of its characters.  An  *)
(* AST node is a record tagged by "type"; an If node has the field         *)
(* elseBranch only when the source has an else.  The tree has no sharing,  *)
(* so the identity of a node object is its path from the root: child k of  *)
(* a statement list is step k; expr/cond/left are step 1, thenBranch/body/ *)
(* right are step 2, elseBranch is step 3.                                 *)
(***************************************************************************)
Token(type, lexeme, line, col) ==
  [type |-> type, lexeme |-> lexeme, line |-> line, col |-> col]

ProgramNode(statements) == [type |-> "Program", statements |-> statements]
VarDeclNode(name) == [type |-> "VarDecl", name |-> name]
AssignNode(name, expr) == [type |-> "Assign", name |-> name, expr |-> expr]
PrintNode(expr) == [type |-> "Print", expr |-> expr]
BlockNode(statements) == [type |-> "Block", statements |-> statements]
IfNode(cond, thenBranch) ==
  [type |-> "If", cond |-> cond, thenBranch |-> thenBranch]
IfElseNode(cond, thenBranch, elseBranch) ==
  [type |-> "If", cond |-> cond, thenBranch |-> thenBranch,
   elseBranch |-> elseBranch]
WhileNode(cond, body) == [type |-> "While", cond |-> cond, body |-> body]
BinaryExprNode(left, op, right) ==
  [type |-> "BinaryExpr", left |-> left, op |-> op, right |-> right]
LiteralNode(val) == [type |-> "Literal", val |-> val]
IdentifierNode(name) == [type |-> "Identifier", name |-> name]

HasElse(node) == "elseBranch" \in DOMAIN node

RECURSIVE Join(_)
\* the JS string made of the characters of a lexeme
Join(chars) == IF chars = <<>> THEN "" ELSE Head(chars) \o Join(Tail(chars))

(***************************************************************************)
(* Lexer.  The input is the sequence of its characters (one-character      *)
(* strings); pos is 0-based as in the source.  The Lexer object is the     *)
(* record [pos, line, col].  tokenize returns [tokens, error].             *)
(***************************************************************************)
NUL == "<NUL>"  \* stands for the character '\0' that peek returns at the end

DigitChars == {"0", "1", "2", "3", "4", "5", "6", "7", "8", "9"}
AlphaChars ==
  {"a", "b", "c", "d", "e", "f", "g", "h", "i", "j", "k", "l", "m",
   "n", "o", "p", "q", "r", "s", "t", "u", "v", "w", "x", "y", "z",
   "A", "B", "C", "D", "E", "F", "G", "H", "I", "J", "K", "L", "M",
   "N", "O", "P", "Q", "R", "S", "T", "U", "V", "W", "X", "Y", "Z", "_"}

isDigit(c) == c \in DigitChars
isAlpha(c) == c \in AlphaChars
isAlphaNumeric(c) == isAlpha(c) \/ isDigit(c)

NewLexer == [pos |-> 0, line |-> 1, col |-> 1]

Lex_isAtEnd(input, lx) == lx.pos >= Len(input)

Lex_peek(input, lx) == IF Lex_isAtEnd(input, lx) THEN NUL ELSE input[lx.pos + 1]

\* advance() that does not restart the column after a newline
Lex_advanceNoRestart(input, lx) ==
  IF Lex_peek(input, lx) = "\n"
  THEN [pos |-> lx.pos + 1, line |-> lx.line + 1, col |-> lx.col + 1]
  ELSE [pos |-> lx.pos + 1, line |-> lx.line, col |-> lx.col + 1]

\* the Lexer object after advance(); the character returned is Lex_peek
Lex_advance(input, lx) ==
  IF Lex_peek(input, lx) = "\n"
  THEN [pos |-> lx.pos + 1, line |-> lx.line + 1, col |-> 1]
  ELSE [pos |-> lx.pos + 1, line |-> lx.line, col |-> lx.col + 1]

RECURSIVE skipLineComment(_, _)
\* while (!this.isAtEnd() && this.peek() !== '\n') this.advance()
skipLineComment(input, lx) ==
  IF ~Lex_isAtEnd(input, lx) /\ Lex_peek(input, lx) # "\n"
  THEN skipLineComment(input, Lex_advance(input, lx))
  ELSE lx

RECURSIVE skipWhitespace(_, _)
skipWhitespace(input, lx) ==
  IF Lex_isAtEnd(input, lx) THEN lx
  ELSE LET char == Lex_peek(input, lx)
       IN IF char \in {" ", "\r", "\t", "\n"}
          THEN skipWhitespace(input, Lex_advance(input, lx))
          ELSE IF char = "/" /\ lx.pos + 2 <= Len(input)
                  /\ input[lx.pos + 2] = "/"
          THEN skipWhitespace(input, skipLineComment(input, lx))
          ELSE lx

RECURSIVE scanWhile(_, _, _, _)
\* while (class(this.peek())) text += this.advance()
\* class is "digit" or "alnum"; returns [lx, text]
scanWhile(input, lx, class, text) ==
  LET c == Lex_peek(input, lx)
  IN IF (class = "digit" /\ isDigit(c)) \/ (class = "alnum" /\ isAlphaNumeric(c))
     THEN scanWhile(input, Lex_advance(input, lx), class, Append(text, c))
     ELSE [lx |-> lx, text |-> text]

keywordOrId(s) ==
  CASE s = <<"i", "n", "t">> -> "KW_INT"
    [] s = <<"i", "f">> -> "KW_IF"
    [] s = <<"e", "l", "s", "e">> -> "KW_ELSE"
    [] s = <<"w", "h", "i", "l", "e">> -> "KW_WHILE"
    [] s = <<"p", "r", "i", "n", "t">> -> "KW_PRINT"
    [] OTHER -> "ID"

\* the single-character cases of the switch in tokenize
SingleCharType(c) ==
  CASE c = "+" -> "PLUS"
    [] c = "-" -> "MINUS"
    [] c = "*" -> "STAR"
    [] c = "/" -> "SLASH"
    [] c = "%" -> "PERCENT"
    [] c = "(" -> "LPAREN"
    [] c = ")" -> "RPAREN"
    [] c = "{" -> "LBRACE"
    [] c = "}" -> "RBRACE"
    [] c = ";" -> "SEMI"

\* the cases that look at the next character for '='
TwoCharType(c) ==
  CASE c = "=" -> "EQ" [] c = "!" -> "NE" [] c = "<" -> "LE" [] c = ">" -> "GE"
OneCharType(c) ==
  CASE c = "=" -> "ASSIGN" [] c = "<" -> "LT" [] c = ">" -> "GT"

LexError(char, line, col) ==
  [kind |-> "Lexer", char |-> char, line |-> line, col |-> col]

NoLexError == [kind |-> "none", char |-> "", line |-> 0, col |-> 0]

\* One evaluation of the loop condition of tokenize and, when it holds, of
\* the loop body; [lx, tokens, error, done].  done: the loop was left and
\* the EOF token was pushed.
tokenizeStep(input, lx0, tokens) ==
  LET lx == IF Lex_isAtEnd(input, lx0) THEN lx0 ELSE skipWhitespace(input, lx0)
      startLine == lx.line
      startCol == lx.col
      char == Lex_peek(input, lx)
      lx1 == Lex_advance(input, lx)
      Pushed(l, type, lexeme) ==
        [lx |-> l,
         tokens |-> Append(tokens, Token(type, lexeme, startLine, startCol)),
         error |-> NoLexError, done |-> FALSE]
      Throw ==
        [lx |-> lx1, tokens |-> tokens,
         error |-> LexError(char, startLine, startCol), done |-> FALSE]
  IN IF Lex_isAtEnd(input, lx)
     THEN [lx |-> lx,
           tokens |-> Append(tokens, Token("EOF", <<>>, lx.line, lx.col)),
           error |-> NoLexError, done |-> TRUE]
     ELSE IF isDigit(char)
     THEN LET r == scanWhile(input, lx1, "digit", <<char>>)
          IN Pushed(r.lx, "NUM", r.text)
     ELSE IF isAlpha(char)
     THEN LET r == scanWhile(input, lx1, "alnum", <<char>>)
          IN Pushed(r.lx, keywordOrId(r.text), r.text)
     ELSE IF char \in {"+", "-", "*", "/", "%", "(", ")", "{", "}", ";"}
     THEN Pushed(lx1, SingleCharType(char), <<char>>)
     ELSE IF char \in {"=", "!", "<", ">"}
     THEN IF Lex_peek(input, lx1) = "="
          THEN Pushed(Lex_advance(input, lx1), TwoCharType(char),
                      <<char, "=">>)
          ELSE IF char = "!" THEN Throw
          ELSE Pushed(lx1, OneCharType(char), <<char>>)
     ELSE Throw

RECURSIVE tokenizeLoop(_, _, _)
tokenizeLoop(input, lx, tokens) ==
  LET r == tokenizeStep(input, lx, tokens)
  IN IF r.done \/ r.error.kind # "none" THEN r
     ELSE tokenizeLoop(input, r.lx, r.tokens)

\* new Lexer(input).tokenize(): the fields tokens and error of the result
tokenize(input) == tokenizeLoop(input, NewLexer, <<>>)

(***************************************************************************)
(* Parser.  current is the 0-based index of the next token.  Every         *)
(* production returns [node, current, error]; once error is set (the       *)
(* thrown ParseError) the callers pass it up unchanged.                    *)
(***************************************************************************)
NoParseError == [kind |-> "none", message |-> "", token |-> <<>>]
ParseError(message, token) ==
  [kind |-> "Parse", message |-> message, token |-> <<token>>]

NoNode == [type |-> "none"]
Parsed(node, current) == [node |-> node, current |-> current, error |-> NoParseError]
Thrown(message, token, current) ==
  [node |-> NoNode, current |-> current, error |-> ParseError(message, token)]
PFailed(r) == r.error.kind # "none"

P_peek(tokens, current) == tokens[current + 1]
P_previous(tokens, current) == tokens[current]
P_isAtEnd(tokens, current) == P_peek(tokens, current).type = "EOF"

P_check(tokens, current, type) ==
  IF P_isAtEnd(tokens, current) THEN FALSE
  ELSE P_peek(tokens, current).type = type

\* match(...types): TRUE when the current token was consumed
P_match(tokens, current, types) ==
  \E type \in types : P_check(tokens, current, type)

\* consume(type, message): [current, error]
P_consume(tokens, current, type, message) ==
  IF P_check(tokens, current, type)
  THEN [current |-> current + 1, error |-> NoParseError]
  ELSE [current |-> current,
        error |-> ParseError(message, P_peek(tokens, current))]

DigitValue(c) ==
  CASE c = "0" -> 0 [] c = "1" -> 1 [] c = "2" -> 2 [] c = "3" -> 3
    [] c = "4" -> 4 [] c = "5" -> 5 [] c = "6" -> 6 [] c = "7" -> 7
    [] c = "8" -> 8 [] c = "9" -> 9

RECURSIVE NumberOf(_)
\* Number(lexeme) for a lexeme of decimal digits
NumberOf(lexeme) ==
  IF lexeme = <<>> THEN 0
  ELSE 10 * NumberOf(SubSeq(lexeme, 1, Len(lexeme) - 1))
         + DigitValue(lexeme[Len(lexeme)])

ComparisonTypes == {"EQ", "NE", "LT", "GT", "LE", "GE"}
TermTypes == {"PLUS", "MINUS"}
FactorTypes == {"STAR", "SLASH", "PERCENT"}

RECURSIVE P_statement(_, _)
RECURSIVE P_expression(_, _)

\* the rest of a production after its last sub-production e: e's throw, or
\* the node built
Build(e, node) == IF PFailed(e) THEN e ELSE Parsed(node, e.current)

\* consume(type, message) after a production result r; keeps r's node
Consumed(node, c) ==
  [node |-> IF c.error.kind = "none" THEN node ELSE NoNode,
   current |-> c.current, error |-> c.error]

ThenConsume(tokens, r, type, message) ==
  IF PFailed(r) THEN r
  ELSE Consumed(r.node, P_consume(tokens, r.current, type, message))

\* this.expression() / this.statement() after a production result r
ThenExpression(tokens, r) ==
  IF PFailed(r) THEN r ELSE P_expression(tokens, r.current)

ThenStatement(tokens, r) ==
  IF PFailed(r) THEN r ELSE P_statement(tokens, r.current)

P_primary(tokens, current) ==
  IF P_match(tokens, current, {"NUM"})
  THEN Parsed(LiteralNode(NumberOf(P_peek(tokens, current).lexeme)), current + 1)
  ELSE IF P_match(tokens, current, {"ID"})
  THEN Parsed(IdentifierNode(P_peek(tokens, current)), current + 1)
  ELSE IF P_match(tokens, current, {"LPAREN"})
  THEN ThenConsume(tokens, P_expression(tokens, current + 1), "RPAREN",
                   "Expect ')' after expression")
  ELSE Thrown("Expect expression", P_peek(tokens, current), current)

RECURSIVE factorLoop(_, _, _)
\* expr = new BinaryExpr(expr, op, right) and the next iteration
factorNext(tokens, expr, op, right) ==
  IF PFailed(right) THEN right
  ELSE factorLoop(tokens, BinaryExprNode(expr, op, right.node), right.current)

\* while (this.match(STAR, SLASH, PERCENT)) { ... } of factor
factorLoop(tokens, expr, current) ==
  IF ~P_match(tokens, current, FactorTypes) THEN Parsed(expr, current)
  ELSE factorNext(tokens, expr, P_peek(tokens, current),
                  P_primary(tokens, current + 1))

factorFrom(tokens, left) ==
  IF PFailed(left) THEN left ELSE factorLoop(tokens, left.node, left.current)

P_factor(tokens, current) == factorFrom(tokens, P_primary(tokens, current))

RECURSIVE termLoop(_, _, _)
\* the step of term's loop with the operands exchanged
termNextSwapped(tokens, expr, op, right) ==
  IF PFailed(right) THEN right
  ELSE termLoop(tokens, BinaryExprNode(right.node, op, expr), right.current)

\* expr = new BinaryExpr(expr, op, right) and the next iteration
termNext(tokens, expr, op, right) ==
  IF PFailed(right) THEN right
  ELSE termLoop(tokens, BinaryExprNode(expr, op, right.node), right.current)

\* while (this.match(PLUS, MINUS)) { ... } of term
termLoop(tokens, expr, current) ==
  IF ~P_match(tokens, current, TermTypes) THEN Parsed(expr, current)
  ELSE termNext(tokens, expr, P_peek(tokens, current),
                P_factor(tokens, current + 1))

termFrom(tokens, left) ==
  IF PFailed(left) THEN left ELSE termLoop(tokens, left.node, left.current)

P_term(tokens, current) == termFrom(tokens, P_factor(tokens, current))

RECURSIVE comparisonLoop(_, _, _)
comparisonNext(tokens, expr, op, right) ==
  IF PFailed(right) THEN right
  ELSE comparisonLoop(tokens, BinaryExprNode(expr, op, right.node),
                      right.current)

\* while (this.match(EQ, NE, LT, GT, LE, GE)) { ... } of comparison
comparisonLoop(tokens, expr, current) ==
  IF ~P_match(tokens, current, ComparisonTypes) THEN Parsed(expr, current)
  ELSE comparisonNext(tokens, expr, P_peek(tokens, current),
                      P_term(tokens, current + 1))

comparisonFrom(tokens, left) ==
  IF PFailed(left) THEN left
  ELSE comparisonLoop(tokens, left.node, left.current)

P_comparison(tokens, current) ==
  comparisonFrom(tokens, P_term(tokens, current))

P_expression(tokens, current) == P_comparison(tokens, current)

P_varDecl(tokens, current) ==
  Build(ThenConsume(tokens,
          ThenConsume(tokens, Parsed(NoNode, current), "ID",
                      "Expect variable name after 'int'"),
          "SEMI", "Expect ';' after variable declaration"),
        VarDeclNode(P_peek(tokens, current)))

printOf(e) == Build(e, PrintNode(e.node))

P_printStmt(tokens, current) ==
  printOf(
    ThenConsume(tokens,
      ThenConsume(tokens,
        ThenExpression(tokens,
          ThenConsume(tokens, Parsed(NoNode, current), "LPAREN",
                      "Expect '(' after 'print'")),
        "RPAREN", "Expect ')' after print expression"),
      "SEMI", "Expect ';' after print statement"))

ifElseOf(cond, thenBranch, elseBranch) ==
  Build(elseBranch, IfElseNode(cond.node, thenBranch.node, elseBranch.node))

\* if (this.match(KW_ELSE)) elseBranch = this.statement()
ifAfterThen(tokens, cond, thenBranch) ==
  IF PFailed(thenBranch) THEN thenBranch
  ELSE IF P_match(tokens, thenBranch.current, {"KW_ELSE"})
  THEN ifElseOf(cond, thenBranch,
                P_statement(tokens, thenBranch.current + 1))
  ELSE Parsed(IfNode(cond.node, thenBranch.node), thenBranch.current)

ifAfterCond(tokens, cond) ==
  ifAfterThen(tokens, cond,
    ThenStatement(tokens,
      ThenConsume(tokens, cond, "RPAREN", "Expect ')' after if condition")))

P_ifStmt(tokens, current) ==
  ifAfterCond(tokens,
    ThenExpression(tokens,
      ThenConsume(tokens, Parsed(NoNode, current), "LPAREN",
                  "Expect '(' after 'if'")))

whileOf(cond, body) == Build(body, WhileNode(cond.node, body.node))

whileAfterCond(tokens, cond) ==
  whileOf(cond,
    ThenStatement(tokens,
      ThenConsume(tokens, cond, "RPAREN",
                  "Expect ')' after while condition")))

P_whileStmt(tokens, current) ==
  whileAfterCond(tokens,
    ThenExpression(tokens,
      ThenConsume(tokens, Parsed(NoNode, current), "LPAREN",
                  "Expect '(' after 'while'")))

RECURSIVE blockLoop(_, _, _)
\* statements.push(this.statement()) and the next iteration
blockNext(tokens, statements, st) ==
  IF PFailed(st) THEN st
  ELSE blockLoop(tokens, Append(statements, st.node), st.current)

\* while (!this.check(RBRACE) && !this.isAtEnd()) statements.push(statement())
\* returns the statement list in the field node
blockLoop(tokens, statements, current) ==
  IF ~P_check(tokens, current, "RBRACE") /\ ~P_isAtEnd(tokens, current)
  THEN blockNext(tokens, statements, P_statement(tokens, current))
  ELSE Parsed(statements, current)

blockOf(e) == Build(e, BlockNode(e.node))

P_block(tokens, current) ==
  blockOf(ThenConsume(tokens, blockLoop(tokens, <<>>, current), "RBRACE",
                      "Expect '}' after block"))

assignOf(tokens, current, e) ==
  Build(e, AssignNode(P_peek(tokens, current), e.node))

P_assignStmt(tokens, current) ==
  assignOf(tokens, current,
    ThenConsume(tokens,
      ThenExpression(tokens,
        ThenConsume(tokens,
          ThenConsume(tokens, Parsed(NoNode, current), "ID",
                      "Expect identifier in assignment or statement"),
          "ASSIGN", "Expect '=' after identifier")),
      "SEMI", "Expect ';' after assignment"))

P_statement(tokens, current) ==
  IF P_match(tokens, current, {"KW_INT"}) THEN P_varDecl(tokens, current + 1)
  ELSE IF P_match(tokens, current, {"KW_PRINT"})
  THEN P_printStmt(tokens, current + 1)
  ELSE IF P_match(tokens, current, {"KW_IF"}) THEN P_ifStmt(tokens, current + 1)
  ELSE IF P_match(tokens, current, {"KW_WHILE"})
  THEN P_whileStmt(tokens, current + 1)
  ELSE IF P_match(tokens, current, {"LBRACE"}) THEN P_block(tokens, current + 1)
  ELSE P_assignStmt(tokens, current)

\* statements.push(st) of parse, or st's throw
pushed(statements, st) ==
  [statements |-> IF PFailed(st) THEN statements
                  ELSE Append(statements, st.node),
   current |-> st.current, error |-> st.error, done |-> FALSE]

\* One evaluation of the loop condition of parse and, when it holds, of
\* statements.push(this.statement()); [statements, current, error, done]
parseStep(tokens, statements, current) ==
  IF ~P_isAtEnd(tokens, current)
  THEN pushed(statements, P_statement(tokens, current))
  ELSE [statements |-> statements, current |-> current,
        error |-> NoParseError, done |-> TRUE]

RECURSIVE parseLoop(_, _, _)
parseNext(tokens, r) ==
  IF PFailed(r) THEN Thrown(r.error.message, r.error.token[1], r.current)
  ELSE IF r.done THEN Parsed(ProgramNode(r.statements), r.current)
  ELSE parseLoop(tokens, r.statements, r.current)

parseLoop(tokens, statements, current) ==
  parseNext(tokens, parseStep(tokens, statements, current))

\* new Parser(tokens).parse(): [node, current, error]
parse(tokens) == parseLoop(tokens, <<>>, 0)

(***************************************************************************)
(* SemanticAnalyzer.  The analyzer object is the record                    *)
(*   [scopes, slotCounter, varToSlot, error]                               *)
(* where error is the exception thrown by the walk, if any.  A throw       *)
(* unwinds the walk: once error is set no visit changes the object.        *)
(***************************************************************************)
NoError == [kind |-> "none", name |-> <<>>, line |-> 0]
RedeclarationError(tok) ==
  [kind |-> "Redeclaration", name |-> tok.lexeme, line |-> tok.line]
UndeclaredError(tok) ==
  [kind |-> "Undeclared", name |-> tok.lexeme, line |-> tok.line]

\* e.message of the Error thrown by the analyzer
ErrorMessage(err) ==
  IF err.kind = "Redeclaration"
  THEN "Semantic Error: Redeclaration of '" \o Join(err.name)
         \o "' at line " \o ToString(err.line)
  ELSE "Semantic Error: Use of undeclared variable '" \o Join(err.name)
         \o "' at line " \o ToString(err.line)

EmptyMap == [x \in {} |-> 0]

NewSemanticAnalyzer ==
  [scopes |-> <<EmptyMap>>, slotCounter |-> 0, varToSlot |-> EmptyMap,
   error |-> NoError]

Failed(sa) == sa.error.kind # "none"

currentScope(sa) == sa.scopes[Len(sa.scopes)]

enterScope(sa) == [sa EXCEPT !.scopes = Append(@, EmptyMap)]

\* exitScope that leaves the scope on the stack
exitScopeKeep(sa) == sa

\* exitScope that gives the slots of the exited scope back to the counter
exitScopeReclaim(sa) ==
  [sa EXCEPT
     !.scopes = IF @ = <<>> THEN @ ELSE SubSeq(@, 1, Len(@) - 1),
     !.slotCounter = @ - Cardinality(DOMAIN sa.scopes[Len(sa.scopes)])]

exitScope(sa) ==
  [sa EXCEPT !.scopes = IF @ = <<>> THEN @ ELSE SubSeq(@, 1, Len(@) - 1)]

RECURSIVE resolveFrom(_, _, _)
\* the loop of resolve, from scope index i (1-based) down to the outermost
resolveFrom(scopes, i, name) ==
  IF i < 1 THEN <<>>
  ELSE IF name \in DOMAIN scopes[i] THEN <<scopes[i][name]>>
  ELSE resolveFrom(scopes, i - 1, name)

\* resolve that looks at the innermost scope only
resolveInnermost(sa, name) ==
  IF name \in DOMAIN sa.scopes[Len(sa.scopes)]
  THEN <<sa.scopes[Len(sa.scopes)][name]>>
  ELSE <<>>

\* resolve(name): <<slot>> when bound, <<>> for undefined
resolve(sa, name) == resolveFrom(sa.scopes, Len(sa.scopes), name)

\* visitVarDecl with the redeclaration check made on every scope of the stack
Sem_visitVarDeclAnyScope(node, path, sa) ==
  IF resolve(sa, node.name.lexeme) # <<>>
  THEN [sa EXCEPT !.error = RedeclarationError(node.name)]
  ELSE [sa EXCEPT
          !.slotCounter = @ + 1,
          !.scopes[Len(sa.scopes)] = (node.name.lexeme :> sa.slotCounter) @@ @,
          !.varToSlot = (path :> sa.slotCounter) @@ @]

Sem_visitVarDecl(node, path, sa) ==
  LET scope == currentScope(sa)
  IN IF node.name.lexeme \in DOMAIN scope
     THEN [sa EXCEPT !.error = RedeclarationError(node.name)]
     ELSE LET slot == sa.slotCounter
          IN [sa EXCEPT
                !.slotCounter = @ + 1,
                !.scopes[Len(sa.scopes)] = (node.name.lexeme :> slot) @@ @,
                !.varToSlot = (path :> slot) @@ @]

Sem_visitIdentifier(node, path, sa) ==
  LET slot == resolve(sa, node.name.lexeme)
  IN IF slot = <<>>
     THEN [sa EXCEPT !.error = UndeclaredError(node.name)]
     ELSE [sa EXCEPT !.varToSlot = (path :> slot[1]) @@ @]

RECURSIVE Sem_accept(_, _, _)
RECURSIVE Sem_forEach(_, _, _, _)

\* statements.forEach(s => s.accept(this)), from element i on
Sem_forEach(statements, i, path, sa) ==
  IF i > Len(statements) \/ Failed(sa) THEN sa
  ELSE Sem_forEach(statements, i + 1, path,
                   Sem_accept(statements[i], Append(path, i), sa))

Sem_visitProgram(node, path, sa) == Sem_forEach(node.statements, 1, path, sa)

\* visitAssign that does not record the target's slot
Sem_visitAssignNoEntry(node, path, sa) ==
  IF Failed(Sem_accept(node.expr, Append(path, 1), sa))
       \/ resolve(Sem_accept(node.expr, Append(path, 1), sa),
                  node.name.lexeme) # <<>>
  THEN Sem_accept(node.expr, Append(path, 1), sa)
  ELSE [Sem_accept(node.expr, Append(path, 1), sa)
          EXCEPT !.error = UndeclaredError(node.name)]

Sem_visitAssign(node, path, sa) ==
  LET s1 == Sem_accept(node.expr, Append(path, 1), sa)
      slot == resolve(s1, node.name.lexeme)
  IN IF Failed(s1) THEN s1
     ELSE IF slot = <<>>
     THEN [s1 EXCEPT !.error = UndeclaredError(node.name)]
     ELSE [s1 EXCEPT !.varToSlot = (path :> slot[1]) @@ @]

Sem_visitPrint(node, path, sa) == Sem_accept(node.expr, Append(path, 1), sa)

Sem_visitBlock(node, path, sa) ==
  LET s1 == Sem_forEach(node.statements, 1, path, enterScope(sa))
  IN IF Failed(s1) THEN s1 ELSE exitScope(s1)

Sem_visitIf(node, path, sa) ==
  LET s1 == Sem_accept(node.cond, Append(path, 1), sa)
      s2 == IF Failed(s1) THEN s1
            ELSE Sem_accept(node.thenBranch, Append(path, 2), s1)
  IN IF Failed(s2) \/ ~HasElse(node) THEN s2
     ELSE Sem_accept(node.elseBranch, Append(path, 3), s2)

Sem_visitWhile(node, path, sa) ==
  LET s1 == Sem_accept(node.cond, Append(path, 1), sa)
  IN IF Failed(s1) THEN s1
     ELSE Sem_accept(node.body, Append(path, 2), s1)

Sem_visitBinaryExpr(node, path, sa) ==
  LET s1 == Sem_accept(node.left, Append(path, 1), sa)
  IN IF Failed(s1) THEN s1
     ELSE Sem_accept(node.right, Append(path, 2), s1)

Sem_visitLiteral(node, path, sa) == sa

\* node.accept(analyzer): the double dispatch of ast.ts
Sem_accept(node, path, sa) ==
  CASE node.type = "Program" -> Sem_visitProgram(node, path, sa)
    [] node.type = "VarDecl" -> Sem_visitVarDecl(node, path, sa)
    [] node.type = "Assign" -> Sem_visitAssign(node, path, sa)
    [] node.type = "Print" -> Sem_visitPrint(node, path, sa)
    [] node.type = "Block" -> Sem_visitBlock(node, path, sa)
    [] node.type = "If" -> Sem_visitIf(node, path, sa)
    [] node.type = "While" -> Sem_visitWhile(node, path, sa)
    [] node.type = "BinaryExpr" -> Sem_visitBinaryExpr(node, path, sa)
    [] node.type = "Literal" -> Sem_visitLiteral(node, path, sa)
    [] node.type = "Identifier" -> Sem_visitIdentifier(node, path, sa)

(***************************************************************************)
(* CodeGenerator.  The generator object is its instruction buffer; the     *)
(* resolution map given to the constructor is the parameter varToSlot.     *)
(* Instruction indices and jump operands are 0-based, as in the source.    *)
(* An instruction record has the field operand only when emit was given    *)
(* one (an absent map entry yields an instruction without operand).        *)
(***************************************************************************)
NewCodeGenerator == <<>>

Instr(op) == [op |-> op]
InstrOp(op, operand) == [op |-> op, operand |-> operand]
InstrOpC(op, operand, comment) ==
  [op |-> op, operand |-> operand, comment |-> comment]
InstrC(op, comment) == [op |-> op, comment |-> comment]

HasOperand(inst) == "operand" \in DOMAIN inst

\* this.instructions.push(inst); the index returned by emit is Len before
emit(instructions, inst) == Append(instructions, inst)

\* this.instructions[index].operand = value
patch(instructions, index, value) ==
  [instructions EXCEPT ![index + 1] =
     IF "comment" \in DOMAIN @
     THEN InstrOpC(@.op, value, @.comment)
     ELSE InstrOp(@.op, value)]

\* emit(op, this.varToSlot.get(node), comment)
emitSlot(instructions, op, varToSlot, path, comment) ==
  IF path \in DOMAIN varToSlot
  THEN emit(instructions, InstrOpC(op, varToSlot[path], comment))
  ELSE emit(instructions, InstrC(op, comment))

\* getBytecode without the final HALT
getBytecodeNoHalt(instructions) == instructions

\* getBytecode that adds HALT only to a non-empty sequence
getBytecodeUnlessEmpty(instructions) ==
  IF instructions = <<>> THEN instructions
  ELSE Append(instructions, Instr("HALT"))

getBytecode(instructions) == Append(instructions, Instr("HALT"))

Gen_visitVarDecl(node, path, varToSlot, instructions) ==
  LET i1 == emit(instructions,
                 InstrOpC("PUSH_INT", 0, "init " \o Join(node.name.lexeme)))
  IN IF path \in DOMAIN varToSlot
     THEN emit(i1, InstrOp("STORE", varToSlot[path]))
     ELSE emit(i1, Instr("STORE"))

Gen_visitLiteral(node, path, varToSlot, instructions) ==
  emit(instructions, InstrOp("PUSH_INT", node.val))

Gen_visitIdentifier(node, path, varToSlot, instructions) ==
  emitSlot(instructions, "LOAD", varToSlot, path,
           "load " \o Join(node.name.lexeme))

\* the switch of visitBinaryExpr: <<opcode>>, or <<>> when no case matches
BinaryOpCode(tokenType) ==
  CASE tokenType = "PLUS" -> <<"ADD">>
    [] tokenType = "MINUS" -> <<"SUB">>
    [] tokenType = "STAR" -> <<"MUL">>
    [] tokenType = "SLASH" -> <<"DIV">>
    [] tokenType = "PERCENT" -> <<"MOD">>
    [] tokenType = "EQ" -> <<"CMP_EQ">>
    [] tokenType = "NE" -> <<"CMP_NE">>
    [] tokenType = "LT" -> <<"CMP_LT">>
    [] tokenType = "GT" -> <<"CMP_GT">>
    [] tokenType = "LE" -> <<"CMP_LE">>
    [] tokenType = "GE" -> <<"CMP_GE">>
    [] OTHER -> <<>>

RECURSIVE Gen_accept(_, _, _, _)
RECURSIVE Gen_forEach(_, _, _, _, _)

\* statements.forEach(s => s.accept(this)), from element i on.  The buffer
\* is evaluated (Len) before the next statement is visited.
Gen_forEach(statements, i, path, varToSlot, instructions) ==
  IF i > Len(statements) THEN instructions
  ELSE LET next == Gen_accept(statements[i], Append(path, i), varToSlot,
                              instructions)
       IN CASE Len(next) >= 0 ->
            Gen_forEach(statements, i + 1, path, varToSlot, next)

Gen_visitProgram(node, path, varToSlot, instructions) ==
  Gen_forEach(node.statements, 1, path, varToSlot, instructions)

Gen_visitBlock(node, path, varToSlot, instructions) ==
  Gen_forEach(node.statements, 1, path, varToSlot, instructions)

Gen_visitAssign(node, path, varToSlot, instructions) ==
  emitSlot(Gen_accept(node.expr, Append(path, 1), varToSlot, instructions),
           "STORE", varToSlot, path, "assign " \o Join(node.name.lexeme))

Gen_visitPrint(node, path, varToSlot, instructions) ==
  emit(Gen_accept(node.expr, Append(path, 1), varToSlot, instructions),
       Instr("PRINT"))

\* visitIf whose JMP_IF_FALSE targets the JMP that ends the then-branch
Gen_visitIfElseSkipped(node, path, varToSlot, instructions) ==
  LET i1 == Gen_accept(node.cond, Append(path, 1), varToSlot, instructions)
      jumpIfFalseIdx == Len(i1)
      i2 == emit(i1, InstrOp("JMP_IF_FALSE", 0))
      i3 == Gen_accept(node.thenBranch, Append(path, 2), varToSlot, i2)
  IN IF HasElse(node)
     THEN LET jumpToEndIdx == Len(i3)
              i4 == emit(i3, InstrOp("JMP", 0))
              i5 == patch(i4, jumpIfFalseIdx, Len(i3))
              i6 == Gen_accept(node.elseBranch, Append(path, 3), varToSlot, i5)
          IN patch(i6, jumpToEndIdx, Len(i6))
     ELSE patch(i3, jumpIfFalseIdx, Len(i3))

Gen_visitIf(node, path, varToSlot, instructions) ==
  LET i1 == Gen_accept(node.cond, Append(path, 1), varToSlot, instructions)
      jumpIfFalseIdx == Len(i1)
      i2 == emit(i1, InstrOp("JMP_IF_FALSE", 0))
      i3 == Gen_accept(node.thenBranch, Append(path, 2), varToSlot, i2)
  IN IF HasElse(node)
     THEN LET jumpToEndIdx == Len(i3)
              i4 == emit(i3, InstrOp("JMP", 0))
              i5 == patch(i4, jumpIfFalseIdx, Len(i4))
              i6 == Gen_accept(node.elseBranch, Append(path, 3), varToSlot, i5)
          IN patch(i6, jumpToEndIdx, Len(i6))
     ELSE patch(i3, jumpIfFalseIdx, Len(i3))

\* visitWhile whose trailing JMP returns to the body, past the condition
Gen_visitWhileJumpToBody(node, path, varToSlot, instructions) ==
  LET i1 == Gen_accept(node.cond, Append(path, 1), varToSlot, instructions)
      jumpIfFalseIdx == Len(i1)
      i2 == emit(i1, InstrOp("JMP_IF_FALSE", 0))
      i3 == Gen_accept(node.body, Append(path, 2), varToSlot, i2)
      i4 == emit(i3, InstrOp("JMP", jumpIfFalseIdx + 1))
  IN patch(i4, jumpIfFalseIdx, Len(i4))

Gen_visitWhile(node, path, varToSlot, instructions) ==
  LET loopStartIdx == Len(instructions)
      i1 == Gen_accept(node.cond, Append(path, 1), varToSlot, instructions)
      jumpIfFalseIdx == Len(i1)
      i2 == emit(i1, InstrOp("JMP_IF_FALSE", 0))
      i3 == Gen_accept(node.body, Append(path, 2), varToSlot, i2)
      i4 == emit(i3, InstrOp("JMP", loopStartIdx))
  IN patch(i4, jumpIfFalseIdx, Len(i4))

Gen_visitBinaryExpr(node, path, varToSlot, instructions) ==
  LET i1 == Gen_accept(node.left, Append(path, 1), varToSlot, instructions)
      i2 == Gen_accept(node.right, Append(path, 2), varToSlot, i1)
      opc == BinaryOpCode(node.op.type)
  IN IF opc = <<>> THEN i2 ELSE emit(i2, Instr(opc[1]))

\* node.accept(generator)
Gen_accept(node, path, varToSlot, instructions) ==
  CASE node.type = "Program" ->
         Gen_visitProgram(node, path, varToSlot, instructions)
    [] node.type = "VarDecl" ->
         Gen_visitVarDecl(node, path, varToSlot, instructions)
    [] node.type = "Assign" ->
         Gen_visitAssign(node, path, varToSlot, instructions)
    [] node.type = "Print" ->
         Gen_visitPrint(node, path, varToSlot, instructions)
    [] node.type = "Block" ->
         Gen_visitBlock(node, path, varToSlot, instructions)
    [] node.type = "If" ->
         Gen_visitIf(node, path, varToSlot, instructions)
    [] node.type = "While" ->
         Gen_visitWhile(node, path, varToSlot, instructions)
    [] node.type = "BinaryExpr" ->
         Gen_visitBinaryExpr(node, path, varToSlot, instructions)
    [] node.type = "Literal" ->
         Gen_visitLiteral(node, path, varToSlot, instructions)
    [] node.type = "Identifier" ->
         Gen_visitIdentifier(node, path, varToSlot, instructions)

(***************************************************************************)
(* VM.  The VM object is the record [bytecode, stack, variables, ip,       *)
(* output].  variables is a JS array with holes: a function whose domain   *)
(* is the set of indices that were assigned.  Key -1 stands for the        *)
(* property "undefined", which is what indexing with a missing operand     *)
(* reads and writes.                                                       *)
(***************************************************************************)
MAX_ITERATIONS == 100000

Sentinel == "Runtime Error: Exceeded execution limit (possible infinite loop)"

NewVM(bytecode) ==
  [bytecode |-> bytecode, stack |-> <<>>, variables |-> EmptyMap, ip |-> 0,
   output |-> <<>>]

\* the three assignments at the top of run()
ResetForRun(vm) == [vm EXCEPT !.output = <<>>, !.ip = 0, !.stack = <<>>]

\* Array.pop: the popped value (undefined on an empty array) and the rest
Top(stack) == IF stack = <<>> THEN Undefined ELSE stack[Len(stack)]
Pop(stack) == IF stack = <<>> THEN stack ELSE SubSeq(stack, 1, Len(stack) - 1)

SlotKey(inst) == IF HasOperand(inst) THEN inst.operand ELSE -1

\* this.variables[k] ?? 0
LoadSlot(variables, k) ==
  IF k \in DOMAIN variables /\ variables[k].k # "undef"
  THEN variables[k] ELSE Num(0)

\* the value pushed by a binary opcode for operands a (deeper) and b (top)
BinaryResult(op, a, b) ==
  CASE op = "ADD" -> JsAdd(a, b)
    [] op = "SUB" -> JsSub(a, b)
    [] op = "MUL" -> JsMul(a, b)
    [] op = "DIV" -> JsFloorDiv(a, b)
    [] op = "MOD" -> JsRem(a, b)
    [] op = "CMP_EQ" -> Bool01(JsStrictEq(a, b))
    [] op = "CMP_NE" -> Bool01(~JsStrictEq(a, b))
    [] op = "CMP_LT" -> Bool01(JsLess(a, b))
    [] op = "CMP_GT" -> Bool01(JsLess(b, a))
    [] op = "CMP_LE" -> Bool01(JsLessEq(a, b))
    [] op = "CMP_GE" -> Bool01(JsLessEq(b, a))

BinaryOps ==
  {"ADD", "SUB", "MUL", "DIV", "MOD",
   "CMP_EQ", "CMP_NE", "CMP_LT", "CMP_GT", "CMP_LE", "CMP_GE"}

ExecPushInt(vm, inst) ==
  [vm EXCEPT
     !.stack = Append(@, IF HasOperand(inst) THEN Num(inst.operand)
                         ELSE Undefined),
     !.ip = @ + 1]

ExecLoad(vm, inst) ==
  [vm EXCEPT !.stack = Append(@, LoadSlot(vm.variables, SlotKey(inst))),
             !.ip = @ + 1]

ExecStore(vm, inst) ==
  [vm EXCEPT !.variables = (SlotKey(inst) :> Top(vm.stack)) @@ @,
             !.stack = Pop(@),
             !.ip = @ + 1]

ExecBinary(vm, inst) ==
  LET b == Top(vm.stack)
      s1 == Pop(vm.stack)
      a == Top(s1)
  IN [vm EXCEPT !.stack = Append(Pop(s1), BinaryResult(inst.op, a, b)),
                !.ip = @ + 1]

ExecJmp(vm, inst) == [vm EXCEPT !.ip = inst.operand]

\* JMP_IF_FALSE that reads the condition without popping it
ExecJmpIfFalseNoPop(vm, inst) ==
  [vm EXCEPT !.ip = IF JsStrictEq(Top(vm.stack), Num(0))
                    THEN inst.operand ELSE @ + 1]

ExecJmpIfFalse(vm, inst) ==
  [vm EXCEPT !.stack = Pop(@),
             !.ip = IF JsStrictEq(Top(vm.stack), Num(0))
                    THEN inst.operand ELSE @ + 1]

ExecPrint(vm, inst) ==
  [vm EXCEPT !.output = Append(@, JsString(Top(vm.stack))),
             !.stack = Pop(@),
             !.ip = @ + 1]

\* the body of the switch for every opcode but HALT
Execute(vm, inst) ==
  CASE inst.op = "PUSH_INT" -> ExecPushInt(vm, inst)
    [] inst.op = "LOAD" -> ExecLoad(vm, inst)
    [] inst.op = "STORE" -> ExecStore(vm, inst)
    [] inst.op \in BinaryOps -> ExecBinary(vm, inst)
    [] inst.op = "JMP" -> ExecJmp(vm, inst)
    [] inst.op = "JMP_IF_FALSE" -> ExecJmpIfFalse(vm, inst)
    [] inst.op = "PRINT" -> ExecPrint(vm, inst)

\* the loop condition with the cap one dispatch later
LoopConditionOffByOne(vm_, iters) ==
  vm_.ip < Len(vm_.bytecode) /\ iters <= MAX_ITERATIONS

\* the exit path without the sentinel
ExitOutputNoSentinel(vm_, iters) == vm_.output

\* the condition of the dispatch loop
LoopCondition(vm, iters) ==
  vm.ip < Len(vm.bytecode) /\ iters < MAX_ITERATIONS

\* the statements after the loop: the sentinel and the returned output
ExitOutput(vm, iters) ==
  IF iters >= MAX_ITERATIONS THEN Append(vm.output, Sentinel) ELSE vm.output

(***************************************************************************)
(* Source texts given to the pipeline: the six SAMPLES of the driver and   *)
(* further programs that exercise the execution cap, skipped               *)
(* declarations, division by zero, every opcode, shadowing and each kind   *)
(* of compile error.                                                       *)
(***************************************************************************)
\*   sample1_arithmetic.mc:
\*   // Arithmetic and variables
\*   int a;
\*   int b;
\*   a = 10;
\*   b = 20;
\*   int c;
\*   c = a + b * 2;
\*   print(c); // Should be 50
Sample1 ==
  <<"/", "/", " ", "A", "r", "i", "t", "h", "m", "e", "t", "i", "c", " ",
    "a", "n", "d", " ", "v", "a", "r", "i", "a", "b", "l", "e", "s", "\n",
    "i", "n", "t", " ", "a", ";", "\n", "i", "n", "t", " ", "b", ";", "\n",
    "a", " ", "=", " ", "1", "0", ";", "\n", "b", " ", "=", " ", "2", "0",
    ";", "\n", "i", "n", "t", " ", "c", ";", "\n", "c", " ", "=", " ", "a",
    " ", "+", " ", "b", " ", "*", " ", "2", ";", "\n", "p", "r", "i", "n",
    "t", "(", "c", ")", ";", " ", "/", "/", " ", "S", "h", "o", "u", "l",
    "d", " ", "b", "e", " ", "5", "0">>

\*   sample2_if.mc:
\*   int x;
\*   x = 100;
\*   if (x > 50) {
\*       print(1);
\*   } else {
\*       print(0);
\*   }
Sample2 ==
  <<"i", "n", "t", " ", "x", ";", "\n", "x", " ", "=", " ", "1", "0", "0",
    ";", "\n", "i", "f", " ", "(", "x", " ", ">", " ", "5", "0", ")", " ",
    "{", "\n", " ", " ", " ", " ", "p", "r", "i", "n", "t", "(", "1", ")",
    ";", "\n", "}", " ", "e", "l", "s", "e", " ", "{", "\n", " ", " ", " ",
    " ", "p", "r", "i", "n", "t", "(", "0", ")", ";", "\n", "}">>

\*   sample3_while.mc:
\*   int i;
\*   i = 0;
\*   while (i < 5) {
\*       print(i);
\*       i = i + 1;
\*   }
Sample3 ==
  <<"i", "n", "t", " ", "i", ";", "\n", "i", " ", "=", " ", "0", ";", "\n",
    "w", "h", "i", "l", "e", " ", "(", "i", " ", "<", " ", "5", ")", " ",
    "{", "\n", " ", " ", " ", " ", "p", "r", "i", "n", "t", "(", "i", ")",
    ";", "\n", " ", " ", " ", " ", "i", " ", "=", " ", "i", " ", "+", " ",
    "1", ";", "\n", "}">>

\*   sample4_nested_scope.mc:
\*   int x;
\*   x = 1;
\*   print(x);
\*   {
\*       int x; // Shadowing
\*       x = 10;
\*       print(x);
\*   }
\*   print(x); // Back to global scope
Sample4 ==
  <<"i", "n", "t", " ", "x", ";", "\n", "x", " ", "=", " ", "1", ";", "\n",
    "p", "r", "i", "n", "t", "(", "x", ")", ";", "\n", "{", "\n", " ", " ",
    " ", " ", "i", "n", "t", " ", "x", ";", " ", "/", "/", " ", "S", "h",
    "a", "d", "o", "w", "i", "n", "g", "\n", " ", " ", " ", " ", "x", " ",
    "=", " ", "1", "0", ";", "\n", " ", " ", " ", " ", "p", "r", "i", "n",
    "t", "(", "x", ")", ";", "\n", "}", "\n", "p", "r", "i", "n", "t", "(",
    "x", ")", ";", " ", "/", "/", " ", "B", "a", "c", "k", " ", "t", "o",
    " ", "g", "l", "o", "b", "a", "l", " ", "s", "c", "o", "p", "e">>

\*   sample5_complex.mc:
\*   // Calculating sum of first 10 numbers
\*   int n;
\*   int sum;
\*   n = 10;
\*   sum = 0;
\*   while (n > 0) {
\*       sum = sum + n;
\*       n = n - 1;
\*   }
\*   print(sum);
Sample5 ==
  <<"/", "/", " ", "C", "a", "l", "c", "u", "l", "a", "t", "i", "n", "g",
    " ", "s", "u", "m", " ", "o", "f", " ", "f", "i", "r", "s", "t", " ",
    "1", "0", " ", "n", "u", "m", "b", "e", "r", "s", "\n", "i", "n", "t",
    " ", "n", ";", "\n", "i", "n", "t", " ", "s", "u", "m", ";", "\n", "n",
    " ", "=", " ", "1", "0", ";", "\n", "s", "u", "m", " ", "=", " ", "0",
    ";", "\n", "w", "h", "i", "l", "e", " ", "(", "n", " ", ">", " ", "0",
    ")", " ", "{", "\n", " ", " ", " ", " ", "s", "u", "m", " ", "=", " ",
    "s", "u", "m", " ", "+", " ", "n", ";", "\n", " ", " ", " ", " ", "n",
    " ", "=", " ", "n", " ", "-", " ", "1", ";", "\n", "}", "\n", "p", "r",
    "i", "n", "t", "(", "s", "u", "m", ")", ";">>

\*   sample6_errors.mc:
\*   // Semantic Error: Redeclaration
\*   int a;
\*   int a;
\*   a = 10;
\*   print(b); // Semantic Error: Undeclared
Sample6 ==
  <<"/", "/", " ", "S", "e", "m", "a", "n", "t", "i", "c", " ", "E", "r",
    "r", "o", "r", ":", " ", "R", "e", "d", "e", "c", "l", "a", "r", "a",
    "t", "i", "o", "n", "\n", "i", "n", "t", " ", "a", ";", "\n", "i", "n",
    "t", " ", "a", ";", "\n", "a", " ", "=", " ", "1", "0", ";", "\n", "p",
    "r", "i", "n", "t", "(", "b", ")", ";", " ", "/", "/", " ", "S", "e",
    "m", "a", "n", "t", "i", "c", " ", "E", "r", "r", "o", "r", ":", " ",
    "U", "n", "d", "e", "c", "l", "a", "r", "e", "d">>

\*   while (1) { }
InfiniteLoop ==
  <<"w", "h", "i", "l", "e", " ", "(", "1", ")", " ", "{", " ", "}">>

\*   int i; i = 0+0+0+0+0+0; while (i < 11109) i = i + 1;
HaltAtCap ==
  <<"i", "n", "t", " ", "i", ";", " ", "i", " ", "=", " ", "0", "+", "0",
    "+", "0", "+", "0", "+", "0", "+", "0", ";", " ", "w", "h", "i", "l",
    "e", " ", "(", "i", " ", "<", " ", "1", "1", "1", "0", "9", ")", " ",
    "i", " ", "=", " ", "i", " ", "+", " ", "1", ";">>

\*   int i; i = 0+0; while (i < 11110) i = i + 1;
CapBeforeHalt ==
  <<"i", "n", "t", " ", "i", ";", " ", "i", " ", "=", " ", "0", "+", "0",
    ";", " ", "w", "h", "i", "l", "e", " ", "(", "i", " ", "<", " ", "1",
    "1", "1", "1", "0", ")", " ", "i", " ", "=", " ", "i", " ", "+", " ",
    "1", ";">>

\*   if (0) int x; print(x); x = 5;
SkippedDecl ==
  <<"i", "f", " ", "(", "0", ")", " ", "i", "n", "t", " ", "x", ";", " ",
    "p", "r", "i", "n", "t", "(", "x", ")", ";", " ", "x", " ", "=", " ",
    "5", ";">>

\*   int z; print(7 / z); print(z / z); print(7 % z);
DivByZero ==
  <<"i", "n", "t", " ", "z", ";", " ", "p", "r", "i", "n", "t", "(", "7",
    " ", "/", " ", "z", ")", ";", " ", "p", "r", "i", "n", "t", "(", "z",
    " ", "/", " ", "z", ")", ";", " ", "p", "r", "i", "n", "t", "(", "7",
    " ", "%", " ", "z", ")", ";">>

\*   int a; a = 0 - 7;
\*   print(a / 2); print(a % 2); print(7 % (0 - 2)); print(a * 3);
\*   print(a == a); print(a != 7); print(a <= 2); print(a >= 2); print(1 < 2 < 3); print(a > 0);
Arith ==
  <<"i", "n", "t", " ", "a", ";", " ", "a", " ", "=", " ", "0", " ", "-",
    " ", "7", ";", "\n", "p", "r", "i", "n", "t", "(", "a", " ", "/", " ",
    "2", ")", ";", " ", "p", "r", "i", "n", "t", "(", "a", " ", "%", " ",
    "2", ")", ";", " ", "p", "r", "i", "n", "t", "(", "7", " ", "%", " ",
    "(", "0", " ", "-", " ", "2", ")", ")", ";", " ", "p", "r", "i", "n",
    "t", "(", "a", " ", "*", " ", "3", ")", ";", "\n", "p", "r", "i", "n",
    "t", "(", "a", " ", "=", "=", " ", "a", ")", ";", " ", "p", "r", "i",
    "n", "t", "(", "a", " ", "!", "=", " ", "7", ")", ";", " ", "p", "r",
    "i", "n", "t", "(", "a", " ", "<", "=", " ", "2", ")", ";", " ", "p",
    "r", "i", "n", "t", "(", "a", " ", ">", "=", " ", "2", ")", ";", " ",
    "p", "r", "i", "n", "t", "(", "1", " ", "<", " ", "2", " ", "<", " ",
    "3", ")", ";", " ", "p", "r", "i", "n", "t", "(", "a", " ", ">", " ",
    "0", ")", ";">>

\*   int x; x = 1; { int x; x = 2; { print(x); } } print(x);
Shadow ==
  <<"i", "n", "t", " ", "x", ";", " ", "x", " ", "=", " ", "1", ";", " ",
    "{", " ", "i", "n", "t", " ", "x", ";", " ", "x", " ", "=", " ", "2",
    ";", " ", "{", " ", "p", "r", "i", "n", "t", "(", "x", ")", ";", " ",
    "}", " ", "}", " ", "p", "r", "i", "n", "t", "(", "x", ")", ";">>

\*   int a; a = !1;
StrayBang ==
  <<"i", "n", "t", " ", "a", ";", " ", "a", " ", "=", " ", "!", "1", ";">>

\*   int a; a = 1 print(a);
MissingSemi ==
  <<"i", "n", "t", " ", "a", ";", " ", "a", " ", "=", " ", "1", " ", "p",
    "r", "i", "n", "t", "(", "a", ")", ";">>

\*   print(b); int a; int a;
UseBeforeDecl ==
  <<"p", "r", "i", "n", "t", "(", "b", ")", ";", " ", "i", "n", "t", " ",
    "a", ";", " ", "i", "n", "t", " ", "a", ";">>

\*   (the empty source)
Empty ==
  <<>>

\*   int x; { int x; } { int x; }
Scopes ==
  <<"i", "n", "t", " ", "x", ";", " ", "{", " ", "i", "n", "t", " ", "x",
    ";", " ", "}", " ", "{", " ", "i", "n", "t", " ", "x", ";", " ", "}">>

SAMPLES == <<Sample1, Sample2, Sample3, Sample4, Sample5, Sample6>>

Sources ==
  {SAMPLES[i] : i \in 1..Len(SAMPLES)} \cup
  {InfiniteLoop, HaltAtCap, CapBeforeHalt, SkippedDecl, DivByZero, Arith,
   Shadow, StrayBang, MissingSemi, UseBeforeDecl, Empty, Scopes}

(***************************************************************************)
(* Programs given to the analyzer and the generator as ASTs: every         *)
(* program of at most MaxNodes statement nodes over a small alphabet (any  *)
(* nesting of blocks, if, if/else and while, empty blocks included), and   *)
(* the ASTs the parser builds for the source texts above.                  *)
(***************************************************************************)
MaxNodes == 4  \* statement nodes of a generated program

Id(c) == Token("ID", <<c>>, 1, 1)

LeafStatements ==
  {VarDeclNode(Id("x")),
   AssignNode(Id("x"), IdentifierNode(Id("x"))),
   BlockNode(<<>>)}

Conditions == {LiteralNode(1), IdentifierNode(Id("x"))}

RECURSIVE StatementsOfSize(_)
RECURSIVE ListsOfSize(_)

\* the statements made of exactly n statement nodes
StatementsOfSize(n) ==
  IF n < 1 THEN {}
  ELSE IF n = 1 THEN LeafStatements
  ELSE {IfNode(c, t) : c \in Conditions, t \in StatementsOfSize(n - 1)}
       \cup {WhileNode(c, b) : c \in Conditions, b \in StatementsOfSize(n - 1)}
       \cup UNION {{IfElseNode(c, t, e) :
                      c \in Conditions, t \in StatementsOfSize(k),
                      e \in StatementsOfSize(n - 1 - k)} : k \in 1..(n - 2)}
       \cup {BlockNode(l) : l \in ListsOfSize(n - 1)}

\* the statement lists made of exactly n statement nodes
ListsOfSize(n) ==
  IF n = 0 THEN {<<>>}
  ELSE UNION {{<<st>> \o rest :
                 st \in StatementsOfSize(k), rest \in ListsOfSize(n - k)} :
              k \in 1..n}

GeneratedPrograms ==
  UNION {{ProgramNode(l) : l \in ListsOfSize(n)} : n \in 0..MaxNodes}

\* new Parser(new Lexer(input).tokenize()).parse(), given the lexer's result
parseTokens(t) ==
  IF t.error.kind = "none" THEN parse(t.tokens)
  ELSE [node |-> NoNode, current |-> 0, error |-> t.error]

ParsedSources ==
  {r.node : r \in {q \in {parseTokens(tokenize(src)) : src \in Sources} :
                     q.error.kind = "none"}}

(***************************************************************************)
(* The pipeline as a state machine.                                        *)
(***************************************************************************)
MaxRuns == 2      \* run() calls made on the bytecode of one compilation
MaxAnalyses == 2  \* visitProgram calls made on the AST of one compilation

VARIABLES
  pc,            \* how far the pipeline got
  source,        \* the source text
  lexer,         \* the Lexer object
  tokens,        \* the token list of Lexer.tokenize
  parser,        \* the Parser object and the statement list of parse
  ast,           \* result of Parser.parse
  semantic,      \* the SemanticAnalyzer object
  instructions,  \* the CodeGenerator's buffer, returned by getBytecode
  wiring,        \* "driver": getBytecode only; "visit": the AST was visited
  vm,            \* the VM object
  iterations,    \* the local counter of run()
  halted,        \* run() returned from the HALT case
  logs,          \* what the caller receives: output lines or the error
  runNo,         \* number of run() calls started
  firstOutput,   \* the output returned by the first run()
  stored,        \* slots STOREd since the current run() started
  unwrittenLoad, \* some LOAD of this run read a slot not in stored
  defaulted,     \* some LOAD of this run took the "?? 0" default
  printed,       \* values popped by the PRINTs of this run, in order
  analyses,      \* number of analyses of the AST made so far
  firstMap       \* the resolution map of the first analysis

vars ==
  <<pc, source, lexer, tokens, parser, ast, semantic, instructions, wiring, vm, iterations,
    halted, logs, runNo, firstOutput, stored, unwrittenLoad, defaulted,
    printed, analyses, firstMap>>

compileVars ==
  <<source, lexer, tokens, parser, ast, semantic, instructions, wiring,
    analyses, firstMap>>
runVars == <<vm, iterations, halted, runNo, firstOutput>>
runHistory == <<stored, unwrittenLoad, defaulted, printed>>

NoVM == NewVM(<<>>)

NewParser == [statements |-> <<>>, current |-> 0]

InitRest ==
  /\ lexer = NewLexer
  /\ tokens = <<>>
  /\ parser = NewParser
  /\ ast = NoNode
  /\ semantic = NewSemanticAnalyzer
  /\ instructions = <<>>
  /\ wiring = "none"
  /\ vm = NoVM
  /\ iterations = 0
  /\ halted = FALSE
  /\ logs = <<>>
  /\ runNo = 0
  /\ firstOutput = <<>>
  /\ stored = {}
  /\ unwrittenLoad = FALSE
  /\ defaulted = FALSE
  /\ printed = <<>>
  /\ analyses = 0
  /\ firstMap = EmptyMap

Init ==
  /\ pc = "lexing"
  /\ source \in Sources
  /\ InitRest

LexErrorMessage(err) ==
  IF err.char = "!"
  THEN "Lexer Error: Unexpected '!' at line " \o ToString(err.line)
         \o ", col " \o ToString(err.col)
  ELSE "Lexer Error: Unexpected character '" \o err.char \o "' at line "
         \o ToString(err.line) \o ", col " \o ToString(err.col)

ParseErrorMessage(err) ==
  LET token == err.token[1]
  IN IF err.message = "Expect expression"
     THEN "Parse Error: Expect expression at '" \o Join(token.lexeme) \o "'"
     ELSE "Parse Error: " \o err.message \o " at '" \o Join(token.lexeme)
            \o "' (line " \o ToString(token.line) \o ", col "
            \o ToString(token.col) \o ")"

\* the catch block of runCompiler
Caught(message) == <<"Error: " \o message>>

\* const tks = new Lexer(code).tokenize(): one iteration of its loop
Tokenized(r) ==
  /\ lexer' = r.lx
  /\ tokens' = r.tokens
  /\ IF r.error.kind # "none"
     THEN pc' = "error" /\ logs' = Caught(LexErrorMessage(r.error))
     ELSE /\ pc' = IF r.done THEN "parsing" ELSE "lexing"
          /\ logs' = logs
  /\ UNCHANGED <<source, parser, ast, semantic, instructions, wiring,
                 analyses, firstMap, runVars, runHistory>>

TokenizeStep ==
  /\ pc = "lexing"
  /\ Tokenized(tokenizeStep(source, lexer, tokens))

\* const ast = new Parser(tks).parse(): one iteration of its loop
ParsedStep(r) ==
  /\ parser' = [statements |-> r.statements, current |-> r.current]
  /\ IF r.error.kind # "none"
     THEN /\ pc' = "error"
          /\ logs' = Caught(ParseErrorMessage(r.error))
          /\ ast' = ast
     ELSE /\ pc' = IF r.done THEN "parsed" ELSE "parsing"
          /\ logs' = logs
          /\ ast' = IF r.done THEN ProgramNode(r.statements) ELSE ast
  /\ UNCHANGED <<source, lexer, tokens, semantic, instructions, wiring,
                 analyses, firstMap, runVars, runHistory>>

ParseStep ==
  /\ pc = "parsing"
  /\ ParsedStep(parseStep(tokens, parser.statements, parser.current))

\* what the caller of visitProgram sees: the catch block on a throw
Analyzed(sa) ==
  /\ semantic' = sa
  /\ analyses' = analyses + 1
  /\ firstMap' = IF analyses = 0 THEN sa.varToSlot ELSE firstMap
  /\ IF Failed(sa)
     THEN pc' = "error" /\ logs' = Caught(ErrorMessage(sa.error))
     ELSE pc' = "analyzed" /\ logs' = logs
  /\ UNCHANGED <<source, lexer, tokens, parser, ast, instructions, wiring,
                 runVars, runHistory>>

\* const semantic = new SemanticAnalyzer(); semantic.visitProgram(ast)
Analyze ==
  /\ pc = "parsed"
  /\ Analyzed(Sem_visitProgram(ast, <<>>, NewSemanticAnalyzer))

\* semantic.visitProgram(ast) again, on the analyzer of the first analysis
ReanalyzeSame ==
  /\ pc = "analyzed"
  /\ analyses < MaxAnalyses
  /\ Analyzed(Sem_visitProgram(ast, <<>>, semantic))

\* new SemanticAnalyzer().visitProgram(ast) on the same AST
ReanalyzeNew ==
  /\ pc = "analyzed"
  /\ analyses < MaxAnalyses
  /\ Analyzed(Sem_visitProgram(ast, <<>>, NewSemanticAnalyzer))

\* runCompiler: new CodeGenerator(semantic.varToSlot).getBytecode()
\* (the generator never visits the AST)
GetBytecodeOnly ==
  /\ pc = "analyzed"
  /\ instructions' = getBytecode(NewCodeGenerator)
  /\ wiring' = "driver"
  /\ pc' = "generated"
  /\ UNCHANGED <<source, lexer, tokens, parser, ast, semantic, analyses,
                 firstMap, logs, runVars, runHistory>>

\* ast.accept(codegen); codegen.getBytecode()
Generate ==
  /\ pc = "analyzed"
  /\ instructions' =
       getBytecode(Gen_accept(ast, <<>>, semantic.varToSlot, NewCodeGenerator))
  /\ wiring' = "visit"
  /\ pc' = "generated"
  /\ UNCHANGED <<source, lexer, tokens, parser, ast, semantic, analyses,
                 firstMap, logs, runVars, runHistory>>

FreshRunHistory ==
  /\ stored' = {}
  /\ unwrittenLoad' = FALSE
  /\ defaulted' = FALSE
  /\ printed' = <<>>

\* const vm = new VM(bc); vm.run() up to the dispatch loop
StartRun ==
  /\ pc = "generated"
  /\ vm' = ResetForRun(NewVM(instructions))
  /\ iterations' = 0
  /\ halted' = FALSE
  /\ runNo' = 1
  /\ pc' = "running"
  /\ FreshRunHistory
  /\ UNCHANGED <<compileVars, logs, firstOutput>>

CurrentInst == vm.bytecode[vm.ip + 1]

\* one iteration of the dispatch loop, for every opcode but HALT
Dispatch ==
  /\ pc = "running"
  /\ LoopCondition(vm, iterations)
  /\ CurrentInst.op # "HALT"
  /\ iterations' = iterations + 1
  /\ vm' = Execute(vm, CurrentInst)
  /\ stored' = IF CurrentInst.op = "STORE"
               THEN stored \cup {SlotKey(CurrentInst)} ELSE stored
  /\ unwrittenLoad' =
       (unwrittenLoad \/
          (CurrentInst.op = "LOAD" /\ SlotKey(CurrentInst) \notin stored))
  /\ defaulted' =
       (defaulted \/
          (CurrentInst.op = "LOAD" /\
             (SlotKey(CurrentInst) \notin DOMAIN vm.variables
                \/ vm.variables[SlotKey(CurrentInst)].k = "undef")))
  /\ printed' = IF CurrentInst.op = "PRINT"
                THEN Append(printed, Top(vm.stack)) ELSE printed
  /\ UNCHANGED <<pc, compileVars, halted, logs, runNo, firstOutput>>

\* what run() returning does for the caller
Returned(out) ==
  /\ logs' = out
  /\ firstOutput' = IF runNo = 1 THEN out ELSE firstOutput

\* case OpCode.HALT: return this.output
Halt ==
  /\ pc = "running"
  /\ LoopCondition(vm, iterations)
  /\ CurrentInst.op = "HALT"
  /\ iterations' = iterations + 1
  /\ halted' = TRUE
  /\ pc' = "done"
  /\ Returned(vm.output)
  /\ UNCHANGED <<compileVars, vm, runNo, runHistory>>

\* the loop condition is false: the sentinel check and the final return
ExitLoop ==
  /\ pc = "running"
  /\ ~LoopCondition(vm, iterations)
  /\ vm' = [vm EXCEPT !.output = ExitOutput(vm, iterations)]
  /\ pc' = "done"
  /\ Returned(vm'.output)
  /\ UNCHANGED <<compileVars, iterations, halted, runNo, runHistory>>

\* vm.run() again on the same VM object
RerunSame ==
  /\ pc = "done"
  /\ runNo < MaxRuns
  /\ vm' = ResetForRun(vm)
  /\ iterations' = 0
  /\ halted' = FALSE
  /\ runNo' = runNo + 1
  /\ pc' = "running"
  /\ FreshRunHistory
  /\ UNCHANGED <<compileVars, logs, firstOutput>>

\* new VM(bc).run() on the same instruction sequence
RerunNew ==
  /\ pc = "done"
  /\ runNo < MaxRuns
  /\ vm' = ResetForRun(NewVM(vm.bytecode))
  /\ iterations' = 0
  /\ halted' = FALSE
  /\ runNo' = runNo + 1
  /\ pc' = "running"
  /\ FreshRunHistory
  /\ UNCHANGED <<compileVars, logs, firstOutput>>

Next ==
  \/ TokenizeStep
  \/ ParseStep
  \/ Analyze
  \/ GetBytecodeOnly
  \/ Generate
  \/ StartRun
  \/ Dispatch
  \/ Halt
  \/ ExitLoop
  \/ RerunSame
  \/ RerunNew

Spec == Init /\ [][Next]_vars

(***************************************************************************)
(* Compilation of ASTs: the analyzer and the generator applied to every    *)
(* generated program and to the parsed sources, with a second analysis of  *)
(* the same AST.                                                           *)
(***************************************************************************)
CompileInit ==
  /\ pc = "parsed"
  /\ source = <<>>
  /\ ast \in GeneratedPrograms \cup ParsedSources
  /\ lexer = NewLexer
  /\ tokens = <<>>
  /\ parser = NewParser
  /\ semantic = NewSemanticAnalyzer
  /\ instructions = <<>>
  /\ wiring = "none"
  /\ vm = NoVM
  /\ iterations = 0
  /\ halted = FALSE
  /\ logs = <<>>
  /\ runNo = 0
  /\ firstOutput = <<>>
  /\ stored = {}
  /\ unwrittenLoad = FALSE
  /\ defaulted = FALSE
  /\ printed = <<>>
  /\ analyses = 0
  /\ firstMap = EmptyMap

CompileNext ==
  \/ Analyze
  \/ ReanalyzeSame
  \/ ReanalyzeNew
  \/ GetBytecodeOnly
  \/ Generate

CompileSpec == CompileInit /\ [][CompileNext]_vars


(***************************************************************************)
(* Properties of the pipeline on the source texts (specification Spec).    *)
(***************************************************************************)
ExpectedOutput ==
  <<<<"50">>, <<"1">>, <<"0", "1", "2", "3", "4">>, <<"1", "10", "1">>,
    <<"55">>>>

ValidSamples == 1..5

(* C1: the pipeline as runCompiler wires it prints, for each of the five   *)
(* valid samples, exactly the expected lines in order.                     *)
C1_DriverPrintsExpectedOutput ==
  (pc = "done" /\ wiring = "driver" /\ runNo = 1) =>
    \A k \in ValidSamples : source = SAMPLES[k] => logs = ExpectedOutput[k]

(* C2: the run of a program whose loop never ends returns after exactly    *)
(* 100,000 dispatches with the sentinel as last output line, and no        *)
(* 100,001st instruction is ever dispatched.                               *)
C2_InfiniteLoopStopsAtCap ==
  /\ iterations <= MAX_ITERATIONS
  /\ (pc = "done" /\ (~halted \/ (wiring = "visit" /\ source = InfiniteLoop)))
       => /\ iterations = MAX_ITERATIONS
          /\ ~halted
          /\ logs # <<>>
          /\ logs[Len(logs)] = Sentinel

C2_Witness ==
  /\ wiring = "visit" /\ source = InfiniteLoop /\ pc = "done"
  /\ iterations = MAX_ITERATIONS
  /\ logs = <<Sentinel>>

(* C3: a second call to run(), on the same VM or on a new VM over the same *)
(* instructions, returns the output of the first call.                     *)
C3_RerunGivesFirstOutput ==
  (pc = "done" /\ runNo >= 2) => logs = firstOutput

(* C4: no LOAD of a run takes the default-to-0 path, i.e. reads a slot     *)
(* that no earlier STORE has written.                                      *)
C4_NoLoadOfUnwrittenSlot ==
  wiring = "visit" => (~defaulted /\ ~unwrittenLoad)

IsIntegerValue(v) == v.k \in {"num", "negzero"}

(* C6: every value on the operand stack, in the slot array and printed is  *)
(* an integer: never undefined, infinite or NaN.                           *)
C6_AllValuesAreIntegers ==
  /\ \A i \in 1..Len(vm.stack) : IsIntegerValue(vm.stack[i])
  /\ \A slot \in DOMAIN vm.variables : IsIntegerValue(vm.variables[slot])
  /\ \A i \in 1..Len(printed) : IsIntegerValue(printed[i])

(* C7: the returned output is one line per executed PRINT, in order,       *)
(* followed by the sentinel exactly when 100,000 instructions were         *)
(* dispatched and none of them was HALT.                                   *)
C7_OutputIsPrintsPlusSentinel ==
  pc = "done" =>
    /\ Len(logs) \in {Len(printed), Len(printed) + 1}
    /\ \A i \in 1..Len(printed) : logs[i] = JsString(printed[i])
    /\ Len(logs) = Len(printed) + 1 =>
         logs[Len(logs)] = Sentinel
    /\ (Len(logs) = Len(printed) + 1) <=>
         (iterations = MAX_ITERATIONS /\ ~halted)

\* HALT dispatched as the 100,000th instruction: no sentinel
C7_Witness ==
  /\ pc = "done" /\ wiring = "visit" /\ source = HaltAtCap
  /\ iterations = MAX_ITERATIONS /\ halted
  /\ logs = <<>>

(***************************************************************************)
(* Properties of the analyzer and the generator on ASTs (specification     *)
(* CompileSpec).  They are stated against the block structure of the AST:  *)
(* the declarations and uses of a program, each with its path, the path of *)
(* the innermost enclosing block (its scope) and its position in the       *)
(* order of the walk.                                                      *)
(***************************************************************************)
Occurrence(node, path, scope) ==
  [path |-> path, type |-> node.type, scope |-> scope,
   name |-> IF node.type \in {"VarDecl", "Assign", "Identifier"}
            THEN node.name.lexeme ELSE <<>>,
   line |-> IF node.type \in {"VarDecl", "Assign", "Identifier"}
            THEN node.name.line ELSE 0]

RECURSIVE OccurrencesOf(_, _, _)
\* the nodes below and including node; scope is the path of the innermost
\* Block (or the Program) around node
OccurrencesOf(node, path, scope) ==
  {Occurrence(node, path, scope)} \cup
  CASE node.type \in {"Program", "Block"} ->
         UNION {OccurrencesOf(node.statements[i], Append(path, i), path) :
                  i \in 1..Len(node.statements)}
    [] node.type \in {"Assign", "Print"} ->
         OccurrencesOf(node.expr, Append(path, 1), scope)
    [] node.type = "If" ->
         OccurrencesOf(node.cond, Append(path, 1), scope)
           \cup OccurrencesOf(node.thenBranch, Append(path, 2), scope)
           \cup (IF HasElse(node)
                 THEN OccurrencesOf(node.elseBranch, Append(path, 3), scope)
                 ELSE {})
    [] node.type = "While" ->
         OccurrencesOf(node.cond, Append(path, 1), scope)
           \cup OccurrencesOf(node.body, Append(path, 2), scope)
    [] node.type = "BinaryExpr" ->
         OccurrencesOf(node.left, Append(path, 1), scope)
           \cup OccurrencesOf(node.right, Append(path, 2), scope)
    [] OTHER -> {}

OccurrencesIn(program) == OccurrencesOf(program, <<>>, <<>>)

DeclarationsIn(occurrences) == {n \in occurrences : n.type = "VarDecl"}

UsesIn(occurrences) ==
  {n \in occurrences : n.type \in {"Assign", "Identifier"}}

IsPrefix(q, path) == Len(q) <= Len(path) /\ SubSeq(path, 1, Len(q)) = q

IsProperPrefix(q, path) == Len(q) < Len(path) /\ IsPrefix(q, path)

LexLess(a, b) ==
  \E i \in 1..Len(b) :
    /\ i <= Len(a) + 1
    /\ SubSeq(a, 1, i - 1) = SubSeq(b, 1, i - 1)
    /\ (i = Len(a) + 1 \/ a[i] < b[i])

\* the moment of the walk at which a declaration is made or a use is
\* resolved: an assignment resolves its target after its expression
WalkPosition(n) ==
  IF n.type = "Assign" THEN Append(n.path, 2) ELSE n.path

Before(m, n) == LexLess(WalkPosition(m), WalkPosition(n))

\* declaration d is in force at use u: same name, made earlier, and u is
\* inside the block that d belongs to
Visible(d, u) ==
  d.name = u.name /\ Before(d, u) /\ IsPrefix(d.scope, u.path)

\* at use u, declaration d is hidden by a declaration of a deeper block
Hidden(d, u, decls) ==
  \E e \in decls : Visible(e, u) /\ IsProperPrefix(d.scope, e.scope)

SlotOf(n) == semantic.varToSlot[n.path]

\* inner redeclares, in a block nested in outer's block, the name of outer
Shadows(inner, outer) ==
  /\ inner.name = outer.name
  /\ Before(outer, inner)
  /\ IsProperPrefix(outer.scope, inner.scope)

\* u is inside the block of the inner declaration, after it
InsideAfter(u, inner, decls) == Visible(inner, u) /\ ~Hidden(inner, u, decls)

\* u comes after the block of the inner declaration has exited
AfterExit(u, inner, outer, decls) ==
  /\ Before(inner, u)
  /\ ~IsPrefix(inner.scope, u.path)
  /\ Visible(outer, u)
  /\ ~Hidden(outer, u, decls)

(* C5: every JMP and JMP_IF_FALSE of the sequence returned by getBytecode  *)
(* has an operand i with 0 <= i < length of the sequence.                  *)
C5_JumpTargetsInRange ==
  pc = "generated" =>
    \A i \in 1..Len(instructions) :
      instructions[i].op \in {"JMP", "JMP_IF_FALSE"} =>
        /\ HasOperand(instructions[i])
        /\ instructions[i].operand \in 0..(Len(instructions) - 1)

\* an if or while as last statement: a jump to the final HALT, and a
\* backward or forward JMP
C5_Witness ==
  /\ pc = "generated" /\ wiring = "visit"
  /\ \E i, j \in 1..Len(instructions) :
       /\ instructions[i].op = "JMP_IF_FALSE"
       /\ instructions[i].operand = Len(instructions) - 1
       /\ instructions[j].op = "JMP"

(* C8: the second analysis of a valid program succeeds and gives the       *)
(* resolution map of the first, on a new analyzer or on the same one.      *)
C8_ReanalysisGivesSameMap ==
  analyses = 2 => (~Failed(semantic) /\ semantic.varToSlot = firstMap)

ShadowingResolvedIn(decls, uses) ==
  \A outer \in decls : \A inner \in decls :
    Shadows(inner, outer) =>
      /\ SlotOf(inner) # SlotOf(outer)
      /\ \A u \in uses :
           /\ InsideAfter(u, inner, decls) => SlotOf(u) = SlotOf(inner)
           /\ AfterExit(u, inner, outer, decls) => SlotOf(u) = SlotOf(outer)

ShadowingSeenIn(decls, uses) ==
  \E outer \in decls : \E inner \in decls :
    /\ Shadows(inner, outer)
    /\ SlotOf(inner) # SlotOf(outer)
    /\ \E u \in uses :
         InsideAfter(u, inner, decls) /\ SlotOf(u) = SlotOf(inner)
    /\ \E u \in uses :
         AfterExit(u, inner, outer, decls) /\ SlotOf(u) = SlotOf(outer)

(* C9: when a name declared in an outer scope is declared again in a       *)
(* nested block, uses inside the block after the inner declaration get the *)
(* inner slot, uses after the block has exited get the outer slot, and the *)
(* two slots differ.                                                       *)
C9_ShadowingResolution ==
  pc = "analyzed" =>
    ShadowingResolvedIn(DeclarationsIn(OccurrencesIn(ast)),
                        UsesIn(OccurrencesIn(ast)))

C9_Witness ==
  /\ pc = "analyzed"
  /\ ShadowingSeenIn(DeclarationsIn(OccurrencesIn(ast)),
                     UsesIn(OccurrencesIn(ast)))

\* d names a variable already declared in d's own block
IsRedeclaration(d, decls) ==
  /\ d.type = "VarDecl"
  /\ \E e \in decls : e.name = d.name /\ e.scope = d.scope /\ Before(e, d)

\* u names a variable no declaration in force binds
IsUndeclaredUse(u, decls) ==
  /\ u.type \in {"Assign", "Identifier"}
  /\ ~\E d \in decls : Visible(d, u)

ErrorPointsIn(decls, uses) ==
  {n \in decls \cup uses : IsRedeclaration(n, decls) \/ IsUndeclaredUse(n, decls)}

\* the faulty nodes the walk meets first (one at most)
FirstErrorPoints(points) ==
  {n \in points : \A m \in points : m = n \/ Before(n, m)}

Sample6Program == parseTokens(tokenize(Sample6)).node

RedeclarationReportedFor(first) ==
  /\ semantic.error.kind = "Redeclaration" <=>
       \E n \in first : n.type = "VarDecl"
  /\ semantic.error.kind = "Redeclaration" =>
       \E n \in first :
         semantic.error.name = n.name /\ semantic.error.line = n.line

(* C10: the analysis fails with a redeclaration error exactly when the     *)
(* first faulty node of the walk is a declaration of a name already        *)
(* declared in the same innermost scope, and it reports that declaration;  *)
(* for sample 6 it reports a at line 3.                                    *)
C10_RedeclarationExactlyInSameScope ==
  analyses = 1 =>
    /\ RedeclarationReportedFor(
         FirstErrorPoints(
           ErrorPointsIn(DeclarationsIn(OccurrencesIn(ast)),
                         UsesIn(OccurrencesIn(ast)))))
    /\ ast = Sample6Program =>
         semantic.error = [kind |-> "Redeclaration", name |-> <<"a">>,
                           line |-> 3]

C10_Witness ==
  /\ analyses = 1
  /\ ast = Sample6Program
  /\ semantic.error.kind = "Redeclaration"
  /\ pc = "error"

UndeclaredReportedFor(first) ==
  /\ semantic.error.kind = "Undeclared" <=>
       \E n \in first : n.type \in {"Assign", "Identifier"}
  /\ semantic.error.kind = "Undeclared" =>
       \E n \in first :
         semantic.error.name = n.name /\ semantic.error.line = n.line

UnboundUseSeenIn(first, decls) ==
  \E u \in first :
    /\ u.type \in {"Assign", "Identifier"}
    /\ semantic.error.name = u.name
    /\ \E d \in decls :
         d.name = u.name /\ Before(d, u) /\ ~IsPrefix(d.scope, u.path)
    /\ \E e \in decls : e.name = u.name /\ Before(u, e)

VariableNodesIn(occurrences) ==
  {n \in occurrences : n.type \in {"VarDecl", "Assign", "Identifier"}}

(* C12: after an analysis without error varToSlot has an entry for every   *)
(* VarDecl, Assign and Identifier node, and every LOAD and STORE the       *)
(* generator emits carries a slot operand.                                 *)
C12_EveryVariableNodeHasSlot ==
  /\ pc \in {"analyzed", "generated"} =>
       \A n \in VariableNodesIn(OccurrencesIn(ast)) :
         n.path \in DOMAIN semantic.varToSlot
  /\ pc = "generated" =>
       \A i \in 1..Len(instructions) :
         instructions[i].op \in {"LOAD", "STORE"} =>
           /\ HasOperand(instructions[i])
           /\ instructions[i].operand \in Nat

C12_Witness ==
  /\ pc = "generated" /\ wiring = "visit"
  /\ \E n, m, k \in VariableNodesIn(OccurrencesIn(ast)) :
       /\ n.type = "VarDecl" /\ m.type = "Assign" /\ k.type = "Identifier"
       /\ {n.path, m.path, k.path} \subseteq DOMAIN semantic.varToSlot
  /\ \E i, j \in 1..Len(instructions) :
       /\ instructions[i].op = "LOAD" /\ HasOperand(instructions[i])
       /\ instructions[j].op = "STORE" /\ HasOperand(instructions[j])

\* the declarations the analyzer has visited: those recorded in varToSlot
VisitedIn(decls) == {d \in decls : d.path \in DOMAIN semantic.varToSlot}

VisitedBefore(d, visited) == {e \in visited : Before(e, d)}

SlotsFromOneCounter(visited) ==
  /\ semantic.slotCounter \in Nat
  /\ \A d \in visited : SlotOf(d) \in 0..(semantic.slotCounter - 1)
  /\ \A d \in visited : \A e \in visited :
       d # e => SlotOf(d) # SlotOf(e)
  /\ analyses = 1 =>
       /\ semantic.slotCounter = Cardinality(visited)
       /\ \A d \in visited :
            SlotOf(d) = Cardinality(VisitedBefore(d, visited))

(* C13: slot numbers come from one counter that starts at 0 and only       *)
(* increases: the k-th declaration an analysis visits receives slot k-1,   *)
(* no two declarations have the same slot, also after a scope has exited   *)
(* and under shadowing, and no slot is negative.                           *)
C13_SlotsCountDeclarations ==
  SlotsFromOneCounter(VisitedIn(DeclarationsIn(OccurrencesIn(ast))))

DistinctSlotsSeenIn(decls) ==
  \E outer \in decls : \E inner \in decls : \E later \in decls :
    /\ Shadows(inner, outer)
    /\ Before(inner, later)
    /\ ~IsPrefix(inner.scope, later.scope)
    /\ SlotOf(outer) = 0 /\ SlotOf(inner) = 1 /\ SlotOf(later) = 2

C13_Witness ==
  /\ analyses = 1 /\ pc = "analyzed"
  /\ DistinctSlotsSeenIn(DeclarationsIn(OccurrencesIn(ast)))

(***************************************************************************)
(* Division and remainder: the programs  print(A / B);  and                *)
(* print(A % B);  for every pair of operands of magnitude at most          *)
(* MaxOperand, a negative operand written 0 - n as the language has no     *)
(* negative literal, compiled by the analyzer and the generator and run    *)
(* by the VM.                                                              *)
(***************************************************************************)
MaxOperand == 7

Op(type, c) == Token(type, <<c>>, 1, 1)

OperandExprs ==
  {LiteralNode(n) : n \in 0..MaxOperand} \cup
  {BinaryExprNode(LiteralNode(0), Op("MINUS", "-"), LiteralNode(n)) :
     n \in 1..MaxOperand}

OperandValue(e) == IF e.type = "Literal" THEN e.val ELSE 0 - e.right.val

ArithPrograms ==
  {ProgramNode(<<PrintNode(BinaryExprNode(a, op, b))>>) :
     a \in OperandExprs, b \in OperandExprs,
     op \in {Op("SLASH", "/"), Op("PERCENT", "%")}}

ArithInit ==
  /\ pc = "parsed"
  /\ source = <<>>
  /\ ast \in ArithPrograms
  /\ lexer = NewLexer
  /\ tokens = <<>>
  /\ parser = NewParser
  /\ semantic = NewSemanticAnalyzer
  /\ instructions = <<>>
  /\ wiring = "none"
  /\ vm = NoVM
  /\ iterations = 0
  /\ halted = FALSE
  /\ logs = <<>>
  /\ runNo = 0
  /\ firstOutput = <<>>
  /\ stored = {}
  /\ unwrittenLoad = FALSE
  /\ defaulted = FALSE
  /\ printed = <<>>
  /\ analyses = 0
  /\ firstMap = EmptyMap

ArithNext ==
  \/ Analyze
  \/ Generate
  \/ StartRun
  \/ Dispatch
  \/ Halt

ArithSpec == ArithInit /\ [][ArithNext]_vars

\* the mathematical value of an integer result (-0 is 0)
ValueOf(v) == IF v.k = "num" THEN v.n ELSE 0

\* q = floor(a / b)
IsFloorQuotient(q, a, b) ==
  IF b > 0 THEN q * b <= a /\ a < (q + 1) * b
  ELSE q * b >= a /\ a > (q + 1) * b

\* r = a - b * trunc(a / b): smaller than b in magnitude, a - r a multiple
\* of b, and never of the sign opposite to a's
IsDividendSignRemainder(r, a, b) ==
  /\ Abs(r) < Abs(b)
  /\ \E t \in (0 - Abs(a))..Abs(a) : a = t * b + r
  /\ (a >= 0 => r >= 0) /\ (a <= 0 => r <= 0)

DivModPushed(expr, v) ==
  OperandValue(expr.right) # 0 =>
    /\ IsInteger(v)
    /\ expr.op.type = "SLASH" =>
         IsFloorQuotient(ValueOf(v), OperandValue(expr.left),
                         OperandValue(expr.right))
    /\ expr.op.type = "PERCENT" =>
         IsDividendSignRemainder(ValueOf(v), OperandValue(expr.left),
                                 OperandValue(expr.right))

(* C14: DIV of a by b, b not 0, pushes floor(a / b), rounding toward       *)
(* negative infinity, and MOD pushes the remainder that has the sign of    *)
(* the dividend a.                                                         *)
C14_DivFloorsModFollowsDividend ==
  printed # <<>> => DivModPushed(ast.statements[1].expr, printed[1])

C14_Witness ==
  /\ pc = "done"
  /\ ast.statements[1].expr.op.type = "SLASH"
  /\ OperandValue(ast.statements[1].expr.left) = 0 - 7
  /\ OperandValue(ast.statements[1].expr.right) = 2
  /\ printed = <<Num(0 - 4)>>
  /\ logs = <<"-4">>

(* C15: the instruction sequence returned by getBytecode always ends with  *)
(* HALT, for every program including the empty program.                    *)
C15_BytecodeEndsWithHalt ==
  pc = "generated" =>
    /\ instructions # <<>>
    /\ instructions[Len(instructions)] = Instr("HALT")

C15_Witness ==
  /\ pc = "generated" /\ wiring = "visit"
  /\ ast = ProgramNode(<<>>)
  /\ instructions = <<Instr("HALT")>>

(***************************************************************************)
(* Expressions: the sources  print(E);  where E is a chain of at most      *)
(* MaxOperators binary operators, each any of the eleven of the language,  *)
(* between single-character operands, tokenized and parsed.                *)
(***************************************************************************)
MaxOperators == 2

OperatorLexemes ==
  {<<"*">>, <<"/">>, <<"%">>, <<"+">>, <<"-">>, <<"=", "=">>, <<"!", "=">>,
   <<"<">>, <<">">>, <<"<", "=">>, <<">", "=">>}

\* the operands that may stand at position i of the chain
OperandsAt(i) == IF i = 1 THEN {"a"} ELSE IF i = 2 THEN {"b"} ELSE {"c", "2"}

RECURSIVE ChainsOf(_)
\* the chains of n operators
ChainsOf(n) ==
  IF n = 0 THEN {<<x>> : x \in OperandsAt(1)}
  ELSE {e \o op \o <<x>> :
          e \in ChainsOf(n - 1), op \in OperatorLexemes,
          x \in OperandsAt(n + 1)}

PrintSource(e) == <<"p", "r", "i", "n", "t", "(">> \o e \o <<")", ";">>

ExprSources ==
  {PrintSource(e) :
     e \in UNION {ChainsOf(n) : n \in 0..MaxOperators}}

ExprInit ==
  /\ pc = "lexing"
  /\ source \in ExprSources
  /\ InitRest

ExprNext ==
  \/ TokenizeStep
  \/ ParseStep

ExprSpec == ExprInit /\ [][ExprNext]_vars

\* the binding strength of an operator: * / % over + - over comparisons
Level(type) ==
  IF type \in {"STAR", "SLASH", "PERCENT"} THEN 3
  ELSE IF type \in {"PLUS", "MINUS"} THEN 2
  ELSE 1

Leaf(kind, val, name) == [kind |-> kind, val |-> val, name |-> name]

Grouped(left, op, right) ==
  [kind |-> "Binary", op |-> op, left |-> left, right |-> right]

RECURSIVE ShapeOf(_)
\* the grouping of an expression node, without token positions
ShapeOf(node) ==
  CASE node.type = "Literal" -> Leaf("Literal", node.val, <<>>)
    [] node.type = "Identifier" -> Leaf("Identifier", 0, node.name.lexeme)
    [] node.type = "BinaryExpr" ->
         Grouped(ShapeOf(node.left), node.op.type, ShapeOf(node.right))

OperatorPositions(toks) == {i \in 1..Len(toks) : i % 2 = 0}

\* the operator applied last: the rightmost one of the weakest level
RootPosition(toks) ==
  CHOOSE k \in OperatorPositions(toks) :
    \A i \in OperatorPositions(toks) :
      \/ Level(toks[i].type) > Level(toks[k].type)
      \/ (Level(toks[i].type) = Level(toks[k].type) /\ i <= k)

RECURSIVE GroupingOf(_)
RECURSIVE GroupingAt(_, _)
\* the grouping that left-associativity and the three levels give to the
\* token chain operand, operator, operand, ...
GroupingOf(toks) ==
  IF Len(toks) = 1
  THEN (IF toks[1].type = "NUM"
        THEN Leaf("Literal", NumberOf(toks[1].lexeme), <<>>)
        ELSE Leaf("Identifier", 0, toks[1].lexeme))
  ELSE GroupingAt(toks, RootPosition(toks))

GroupingAt(toks, k) ==
  Grouped(GroupingOf(SubSeq(toks, 1, k - 1)), toks[k].type,
          GroupingOf(SubSeq(toks, k + 1, Len(toks))))

\* the tokens of E in  print ( E ) ; EOF
ChainTokens(toks) == SubSeq(toks, 3, Len(toks) - 3)

IdLeaf(c) == Leaf("Identifier", 0, <<c>>)

\* the three expressions the specification names, with their groupings
NamedGroupings ==
  {[source |-> PrintSource(<<"a", "-", "b", "-", "c">>),
    shape |-> Grouped(Grouped(IdLeaf("a"), "MINUS", IdLeaf("b")),
                      "MINUS", IdLeaf("c"))],
   [source |-> PrintSource(<<"a", "+", "b", "*", "2">>),
    shape |-> Grouped(IdLeaf("a"), "PLUS",
                      Grouped(IdLeaf("b"), "STAR",
                              Leaf("Literal", 2, <<>>)))],
   [source |-> PrintSource(<<"a", "<", "b", "<", "c">>),
    shape |-> Grouped(Grouped(IdLeaf("a"), "LT", IdLeaf("b")),
                      "LT", IdLeaf("c"))]}

(* C16: parse builds binary expressions left-associatively within each     *)
(* level, * / % binding tighter than + - and + - tighter than the six      *)
(* comparisons; every chain, chained comparisons included, is accepted:    *)
(* a-b-c is (a-b)-c, a+b*2 is a+(b*2) and a<b<c is (a<b)<c.                *)
C16_LeftAssociativeByLevel ==
  /\ pc # "error"
  /\ pc = "parsed" =>
       /\ Len(ast.statements) = 1
       /\ ast.statements[1].type = "Print"
       /\ ShapeOf(ast.statements[1].expr) = GroupingOf(ChainTokens(tokens))
       /\ \A g \in NamedGroupings :
            source = g.source => ShapeOf(ast.statements[1].expr) = g.shape

C16_Witness ==
  /\ pc = "parsed"
  /\ source = PrintSource(<<"a", "<", "b", "<", "c">>)
  /\ ShapeOf(ast.statements[1].expr) =
       Grouped(Grouped(IdLeaf("a"), "LT", IdLeaf("b")), "LT", IdLeaf("c"))

(***************************************************************************)
(* Source texts for the lexer alone: every text of at most MaxChars        *)
(* characters over a letter, a digit, the blank, the newline, the slash    *)
(* (operator and comment), '=' and '!' (one- and two-character tokens and  *)
(* the lexer's error).                                                     *)
(***************************************************************************)
MaxChars == 4

LexChars == {"a", "1", " ", "\n", "/", "=", "!"}

LexSources ==
  UNION {[1..n -> LexChars] : n \in 0..MaxChars}

LexInit ==
  /\ pc = "lexing"
  /\ source \in LexSources
  /\ InitRest

LexNext == TokenizeStep

LexSpec == LexInit /\ [][LexNext]_vars

NewlinesBefore(src, p) == {q \in 1..(p - 1) : src[q] = "\n"}

\* 1-based line and column of position p (1-based) of src; p may be the
\* position just past the last character
LineOf(src, p) == 1 + Cardinality(NewlinesBefore(src, p))

ColOf(src, p) ==
  p - (CHOOSE q \in NewlinesBefore(src, p) \cup {0} :
         \A r \in NewlinesBefore(src, p) : r <= q)

\* position p lies in a // comment: a "//" earlier on the same line
InComment(src, p) ==
  \E q \in 1..p :
    /\ q + 1 <= Len(src) /\ src[q] = "/" /\ src[q + 1] = "/"
    /\ \A r \in q..p : src[r] # "\n"

IsBlank(src, p) == src[p] \in {" ", "\r", "\t", "\n"}

\* token tok stands at position p of src
StandsAt(src, tok, p) ==
  /\ tok.line = LineOf(src, p) /\ tok.col = ColOf(src, p)
  /\ IF tok.type = "EOF" THEN p = Len(src) + 1 /\ tok.lexeme = <<>>
     ELSE /\ tok.lexeme # <<>>
          /\ p + Len(tok.lexeme) - 1 <= Len(src)
          /\ SubSeq(src, p, p + Len(tok.lexeme) - 1) = tok.lexeme
          /\ ~InComment(src, p) /\ ~IsBlank(src, p)

\* the positions of src that toks, placed by their line and col, occupy
Occupied(src, toks) ==
  {p \in 1..Len(src) :
     \E i \in 1..Len(toks) : \E s \in 1..p :
       StandsAt(src, toks[i], s) /\ p < s + Len(toks[i].lexeme)}

TokensPlaced(src, toks) ==
  /\ toks # <<>>
  /\ \A i \in 1..Len(toks) : toks[i].type = "EOF" <=> i = Len(toks)
  /\ \A i \in 1..Len(toks) :
       \E p \in 1..(Len(src) + 1) : StandsAt(src, toks[i], p)
  /\ \A i \in 1..(Len(toks) - 1) :
       \/ toks[i].line < toks[i + 1].line
       \/ (toks[i].line = toks[i + 1].line
             /\ toks[i].col + Len(toks[i].lexeme) <= toks[i + 1].col)
  /\ \A p \in 1..Len(src) :
       p \in Occupied(src, toks) <=> (~IsBlank(src, p) /\ ~InComment(src, p))

(* C17: when tokenize succeeds the last token, and no other, is            *)
(* end-of-input, and every token's line and col are the 1-based line and   *)
(* column of its first character in the source; the column restarts at 1   *)
(* after a newline, and whitespace and // comments produce no token.       *)
C17_TokensCarryPositions ==
  pc = "parsing" => TokensPlaced(source, tokens)

C17_Witness ==
  /\ pc = "parsing"
  /\ source = <<"/", "/", "\n", "a">>
  /\ tokens = <<Token("ID", <<"a">>, 2, 1), Token("EOF", <<>>, 2, 2)>>

(***************************************************************************)
(* The layout of generated code: the number of instructions of each node   *)
(* and the index at which the code of each If and While node starts.       *)
(***************************************************************************)
RECURSIVE CodeSize(_)
RECURSIVE CodeSizeOfList(_, _)
CodeSize(node) ==
  CASE node.type \in {"Program", "Block"} -> CodeSizeOfList(node.statements, 1)
    [] node.type = "VarDecl" -> 2
    [] node.type \in {"Assign", "Print"} -> CodeSize(node.expr) + 1
    [] node.type = "If" ->
         CodeSize(node.cond) + 1 + CodeSize(node.thenBranch)
           + (IF HasElse(node) THEN 1 + CodeSize(node.elseBranch) ELSE 0)
    [] node.type = "While" ->
         CodeSize(node.cond) + 1 + CodeSize(node.body) + 1
    [] node.type = "BinaryExpr" ->
         CodeSize(node.left) + CodeSize(node.right) + 1
    [] OTHER -> 1

CodeSizeOfList(statements, i) ==
  IF i > Len(statements) THEN 0
  ELSE CodeSize(statements[i]) + CodeSizeOfList(statements, i + 1)

Placement(node, path, start) ==
  [node |-> node, path |-> path, start |-> start]

RECURSIVE PlacementsOf(_, _, _)
RECURSIVE PlacementsOfList(_, _, _, _)
\* the If and While nodes below and including node, each with the 0-based
\* index of the first instruction of its code; node's code starts at start
PlacementsOf(node, path, start) ==
  CASE node.type \in {"Program", "Block"} ->
         PlacementsOfList(node.statements, 1, path, start)
    [] node.type = "If" ->
         {Placement(node, path, start)}
           \cup PlacementsOf(node.thenBranch, Append(path, 2),
                             start + CodeSize(node.cond) + 1)
           \cup (IF HasElse(node)
                 THEN PlacementsOf(node.elseBranch, Append(path, 3),
                                   start + CodeSize(node.cond) + 1
                                     + CodeSize(node.thenBranch) + 1)
                 ELSE {})
    [] node.type = "While" ->
         {Placement(node, path, start)}
           \cup PlacementsOf(node.body, Append(path, 2),
                             start + CodeSize(node.cond) + 1)
    [] OTHER -> {}

PlacementsOfList(statements, i, path, start) ==
  IF i > Len(statements) THEN {}
  ELSE PlacementsOf(statements[i], Append(path, i), start)
         \cup PlacementsOfList(statements, i + 1, path,
                               start + CodeSize(statements[i]))

PlacementsIn(program) == PlacementsOf(program, <<>>, 0)

\* the instruction at 0-based index i
At(code, i) == code[i + 1]

\* the instructions at the 0-based indices first .. first + size - 1
Segment(code, first, size) == SubSeq(code, first + 1, first + size)

\* the code the generator emits for node when code[0 .. first-1] is there
EmittedAfter(code, node, path, first) ==
  Segment(Gen_accept(node, path, semantic.varToSlot, Segment(code, 0, first)),
          first, CodeSize(node))

\* condition code, JMP_IF_FALSE, body code, JMP: c and b are the sizes of
\* the condition's and the body's code
WhileLaidOut(code, w, c, b) ==
  /\ w.start + c + b + 2 <= Len(code)
  /\ c > 0
  /\ Segment(code, w.start, c) =
       EmittedAfter(code, w.node.cond, Append(w.path, 1), w.start)
  /\ At(code, w.start + c) = InstrOp("JMP_IF_FALSE", w.start + c + b + 2)
  /\ Segment(code, w.start + c + 1, b) =
       EmittedAfter(code, w.node.body, Append(w.path, 2), w.start + c + 1)
  /\ At(code, w.start + c + 1 + b) = InstrOp("JMP", w.start)

WhilesIn(placements) == {w \in placements : w.node.type = "While"}

(* C18: for every While node the generated code is condition code,         *)
(* JMP_IF_FALSE, body code, JMP; the trailing JMP's operand is the index   *)
(* of the condition's first instruction and the JMP_IF_FALSE operand is    *)
(* the index just past the trailing JMP.                                   *)
C18_WhileLayout ==
  (pc = "generated" /\ wiring = "visit") =>
    /\ Len(instructions) = CodeSize(ast) + 1
    /\ \A w \in WhilesIn(PlacementsIn(ast)) :
         WhileLaidOut(instructions, w, CodeSize(w.node.cond),
                      CodeSize(w.node.body))

C18_Witness ==
  /\ pc = "generated" /\ wiring = "visit"
  /\ \E w \in WhilesIn(PlacementsIn(ast)) :
     \E v \in WhilesIn(PlacementsIn(ast)) :
       /\ w.start > 0
       /\ IsProperPrefix(w.path, v.path)
       /\ At(instructions, w.start + CodeSize(w.node) - 1) =
            InstrOp("JMP", w.start)
       /\ At(instructions, v.start + CodeSize(v.node) - 1) =
            InstrOp("JMP", v.start)

(***************************************************************************)
(* Branching: the programs  S print(1);  where S is a print of a marker    *)
(* or an if, with or without else, on the literal 0 or 1 whose branches    *)
(* are such statements again, nested at most MaxDepth deep; every print    *)
(* of S has its own marker.  Compiled and run.                             *)
(***************************************************************************)
MaxDepth == 2

RECURSIVE BranchStatements(_, _)
\* the statements of depth at most d whose markers start with tag
BranchStatements(d, tag) ==
  {PrintNode(LiteralNode(tag))} \cup
  (IF d = 0 THEN {}
   ELSE {IfElseNode(LiteralNode(c), t, e) :
           c \in {0, 1},
           t \in BranchStatements(d - 1, 2 * tag),
           e \in BranchStatements(d - 1, 2 * tag + 1)}
        \cup
        {IfNode(LiteralNode(c), t) :
           c \in {0, 1}, t \in BranchStatements(d - 1, 2 * tag)})

BranchPrograms ==
  {ProgramNode(<<s, PrintNode(LiteralNode(1))>>) :
     s \in BranchStatements(MaxDepth, 2)}

BranchInit ==
  /\ pc = "parsed"
  /\ source = <<>>
  /\ ast \in BranchPrograms
  /\ lexer = NewLexer
  /\ tokens = <<>>
  /\ parser = NewParser
  /\ semantic = NewSemanticAnalyzer
  /\ instructions = <<>>
  /\ wiring = "none"
  /\ vm = NoVM
  /\ iterations = 0
  /\ halted = FALSE
  /\ logs = <<>>
  /\ runNo = 0
  /\ firstOutput = <<>>
  /\ stored = {}
  /\ unwrittenLoad = FALSE
  /\ defaulted = FALSE
  /\ printed = <<>>
  /\ analyses = 0
  /\ firstMap = EmptyMap

BranchNext ==
  \/ Analyze
  \/ Generate
  \/ StartRun
  \/ Dispatch
  \/ Halt

BranchSpec == BranchInit /\ [][BranchNext]_vars

\* t and e are the sizes of the then-branch's and the else-branch's code,
\* j the index of the JMP_IF_FALSE
IfElseLaidOut(code, j, t, e) ==
  /\ j + t + e + 2 <= Len(code)
  /\ At(code, j).op = "JMP_IF_FALSE" /\ At(code, j).operand = j + t + 2
  /\ At(code, j + t + 1) = InstrOp("JMP", j + t + e + 2)

IfLaidOut(code, j, t) ==
  /\ j + t + 1 <= Len(code)
  /\ At(code, j) = InstrOp("JMP_IF_FALSE", j + t + 1)

IfNodeLaidOut(code, n) ==
  IF HasElse(n.node)
  THEN IfElseLaidOut(code, n.start + CodeSize(n.node.cond),
                     CodeSize(n.node.thenBranch), CodeSize(n.node.elseBranch))
  ELSE IfLaidOut(code, n.start + CodeSize(n.node.cond),
                 CodeSize(n.node.thenBranch))

IfsIn(placements) == {n \in placements : n.node.type = "If"}

RECURSIVE PrintsOf(_)
\* the values a statement of BranchStatements prints when exactly the
\* branch its condition selects is executed
PrintsOf(stmt) ==
  IF stmt.type = "Print" THEN <<Num(stmt.expr.val)>>
  ELSE IF stmt.cond.val # 0 THEN PrintsOf(stmt.thenBranch)
  ELSE IF HasElse(stmt) THEN PrintsOf(stmt.elseBranch)
  ELSE <<>>

(* C19: for an If node with an else-branch the JMP_IF_FALSE operand is the *)
(* index of the else-branch's first instruction and the JMP after the      *)
(* then-branch targets the index just past the else-branch, so a run       *)
(* executes exactly one of the two branches; without an else-branch the    *)
(* JMP_IF_FALSE operand is the index just past the then-branch.            *)
C19_IfLayoutRunsOneBranch ==
  /\ pc = "generated" =>
       \A n \in IfsIn(PlacementsIn(ast)) : IfNodeLaidOut(instructions, n)
  /\ pc = "done" =>
       /\ halted
       /\ printed = PrintsOf(ast.statements[1]) \o <<Num(1)>>

C19_Witness ==
  /\ pc = "done"
  /\ ast.statements[1].type = "If" /\ HasElse(ast.statements[1])
  /\ ast.statements[1].cond.val = 0
  /\ ast.statements[1].elseBranch.type = "If"
  /\ HasElse(ast.statements[1].elseBranch)
  /\ ast.statements[1].elseBranch.cond.val = 1
  /\ printed = <<Num(10), Num(1)>>

\* the number of values an instruction pops
Pops(op) ==
  IF op \in BinaryOps THEN 2
  ELSE IF op \in {"STORE", "PRINT", "JMP_IF_FALSE"} THEN 1
  ELSE 0

RECURSIVE AtBoundary(_, _, _)
RECURSIVE AtBoundaryInList(_, _, _, _)
\* AtBoundary for an If or While: first is the index at which the
\* then-branch or body starts, size the size of its code
AtBoundaryBelow(node, first, size, ip) ==
  \/ AtBoundary(node[IF node.type = "If" THEN "thenBranch" ELSE "body"],
                first, ip)
  \/ /\ node.type = "If" /\ HasElse(node)
     /\ AtBoundary(node.elseBranch, first + size + 1, ip)

\* ip is an index at which the code of a statement below or including node
\* starts or has just finished; node's code starts at start
AtBoundary(node, start, ip) ==
  \/ ip = start
  \/ CASE node.type \in {"Program", "Block"} ->
            AtBoundaryInList(node.statements, 1, start, ip)
       [] node.type = "If" ->
            AtBoundaryBelow(node, start + CodeSize(node.cond) + 1,
                            CodeSize(node.thenBranch), ip)
       [] node.type = "While" ->
            AtBoundaryBelow(node, start + CodeSize(node.cond) + 1, 0, ip)
       [] OTHER -> FALSE
  \/ ip = start + CodeSize(node)

\* the i-th statement starts at start and ends at end
AtBoundaryFrom(statements, i, start, end, ip) ==
  \/ ip = end
  \/ IF ip < end THEN AtBoundary(statements[i], start, ip)
     ELSE AtBoundaryInList(statements, i + 1, end, ip)

\* the same for the statements from the i-th on, the i-th starting at start
AtBoundaryInList(statements, i, start, ip) ==
  \/ ip = start
  \/ /\ i <= Len(statements)
     /\ ip > start
     /\ AtBoundaryFrom(statements, i, start,
                       start + CodeSize(statements[i]), ip)

Larger(m, n) == IF m > n THEN m ELSE n

RECURSIVE StackNeed(_)
RECURSIVE StackNeedOfList(_, _)
\* the largest number of values the evaluation of one expression below
\* node holds at a time
StackNeed(node) ==
  CASE node.type \in {"Program", "Block"} ->
         StackNeedOfList(node.statements, 1)
    [] node.type = "VarDecl" -> 1
    [] node.type \in {"Assign", "Print"} -> StackNeed(node.expr)
    [] node.type = "If" ->
         IF HasElse(node)
         THEN StackNeedOfList(
                <<node.cond, node.thenBranch, node.elseBranch>>, 1)
         ELSE StackNeedOfList(<<node.cond, node.thenBranch>>, 1)
    [] node.type = "While" -> StackNeedOfList(<<node.cond, node.body>>, 1)
    [] node.type = "BinaryExpr" ->
         Larger(StackNeed(node.left), StackNeed(node.right) + 1)
    [] OTHER -> 1

StackNeedOfList(nodes, i) ==
  IF i > Len(nodes) THEN 0
  ELSE Larger(StackNeed(nodes[i]), StackNeedOfList(nodes, i + 1))

StackDisciplined(code, machine, program) ==
  /\ machine.ip < Len(code) => Len(machine.stack) >= Pops(At(code, machine.ip).op)
  /\ machine.stack # <<>> =>
       /\ ~AtBoundary(program, 0, machine.ip)
       /\ machine.ip < Len(code) => At(code, machine.ip).op # "HALT"
       /\ Len(machine.stack) <= StackNeed(program)

(* C20: in every run of a program compiled by the pipeline no instruction  *)
(* pops an empty stack, the stack is empty whenever a statement's code     *)
(* starts or has finished, in particular at each arrival at a loop head    *)
(* and when HALT is dispatched, and its depth stays within what one        *)
(* expression needs however many iterations have run.                      *)
C20_StackBalanced ==
  (pc = "running" /\ wiring = "visit") =>
    StackDisciplined(instructions, vm, ast)

C20_Witness ==
  /\ pc = "running" /\ wiring = "visit"
  /\ vm.stack = <<>>
  /\ \E w \in WhilesIn(PlacementsIn(ast)) :
       /\ vm.ip = w.start
       /\ iterations > 3 * CodeSize(ast)

====
